---- MODULE Spec2Model ----
(***************************************************************************)
(* Model of the energy-sensemaker dashboard.                               *)
(*                                                                         *)
(* Part 1: the chat agent's chart payload normalizer, renderChart in       *)
(* components/dashboard/ChatInterface.tsx.  JavaScript values are tagged   *)
(* records, strings are sequences of one-character strings, objects are    *)
(* ordered sequences of key/value entries (insertion order, as in JS).     *)
(***************************************************************************)
EXTENDS Integers, Sequences, FiniteSets, TLC

(***************************************************************************)
(* Bounds of the model.                                                    *)
(***************************************************************************)
\* longest label / value sequence of a generated chart payload
MaxLen == 2
\* largest number of series of a generated chart payload
MaxSeries == 2
\* largest number of load() calls that have not settled
MaxRequests == 2
\* largest number of prices of a generated hourly series
MaxPrices == 24
\* largest end of a colour range calculateDynamicColor is tried with, next
\* to the fallback range's 100
MaxBound == 5
\* largest number of clicks on the legend and the Reset button
MaxClicks == 3
\* largest number of messages the user sends in the chat
MaxSends == 3

(***************************************************************************)
(* JavaScript values.                                                      *)
(***************************************************************************)
Undef == [t |-> "undefined", v |-> 0]
Null == [t |-> "null", v |-> 0]
Bool(b) == [t |-> "boolean", v |-> b]
Num(n) == [t |-> "number", v |-> n]
Str(s) == [t |-> "string", v |-> s]
Arr(s) == [t |-> "array", v |-> s]
Obj(s) == [t |-> "object", v |-> s]
Entry(key, val) == [k |-> key, val |-> val]

\* ToBoolean: the values the code's `!x`, `x && y`, `x || y` treat as false.
Truthy(x) ==
  CASE x.t = "undefined" -> FALSE
    [] x.t = "null" -> FALSE
    [] x.t = "boolean" -> x.v
    [] x.t = "number" -> x.v # 0
    [] x.t = "string" -> x.v # <<>>
    [] OTHER -> TRUE

\* `x || y`
OrElse(x, y) == IF Truthy(x) THEN x ELSE y

\* Array.isArray
IsArray(x) == x.t = "array"

\* Reading a property of null or undefined throws a TypeError.
CanRead(x) == x.t \notin {"null", "undefined"}

\* x.key for a readable x: own entries of an object; none of the keys the
\* code reads exists on an array, a string, a number or a boolean.
Get(x, key) ==
  IF x.t # "object" THEN Undef
  ELSE LET hit == {i \in 1..Len(x.v) : x.v[i].k = key}
       IN IF hit = {} THEN Undef ELSE x.v[CHOOSE i \in hit : TRUE].val

\* `key in x` for an object
Has(x, key) == x.t = "object" /\ \E i \in 1..Len(x.v) : x.v[i].k = key

\* x.key = val on an object: an existing key keeps its position, a new key
\* is appended.
Put(x, key, val) ==
  IF Has(x, key)
  THEN Obj([i \in 1..Len(x.v) |->
              IF x.v[i].k = key THEN Entry(key, val) ELSE x.v[i]])
  ELSE Obj(Append(x.v, Entry(key, val)))

(***************************************************************************)
(* Strings.                                                                *)
(***************************************************************************)
Upper == <<"A","B","C","D","E","F","G","H","I","J","K","L","M",
           "N","O","P","Q","R","S","T","U","V","W","X","Y","Z">>
Lower == <<"a","b","c","d","e","f","g","h","i","j","k","l","m",
           "n","o","p","q","r","s","t","u","v","w","x","y","z">>

LowerChar(c) ==
  LET hit == {i \in 1..Len(Upper) : Upper[i] = c}
  IN IF hit = {} THEN c ELSE Lower[CHOOSE i \in hit : TRUE]

\* String.prototype.toLowerCase
toLowerCase(s) == [i \in 1..Len(s) |-> LowerChar(s[i])]

Digits == <<"0","1","2","3","4","5","6","7","8","9">>
IsDigit(c) == \E i \in 1..10 : Digits[i] = c
DigitVal(c) == (CHOOSE i \in 1..10 : Digits[i] = c) - 1

\* property names read or written by renderChart
kChartData == <<"c","h","a","r","t","_","d","a","t","a">>
kData == <<"d","a","t","a">>
kX == <<"x">>
kY == <<"y">>
kYlabel == <<"y","l","a","b","e","l">>
kTitle == <<"t","i","t","l","e">>
kLabels == <<"l","a","b","e","l","s">>
kLabel == <<"l","a","b","e","l">>
kDatasets == <<"d","a","t","a","s","e","t","s">>
kDataset == <<"d","a","t","a","s","e","t">>
kType == <<"t","y","p","e">>
kOptions == <<"o","p","t","i","o","n","s">>
kBorderColor == <<"b","o","r","d","e","r","C","o","l","o","r">>
kBackgroundColor == <<"b","a","c","k","g","r","o","u","n","d","C","o","l","o","r">>
kBorderWidth == <<"b","o","r","d","e","r","W","i","d","t","h">>

sLine == <<"l","i","n","e">>
sBar == <<"b","a","r">>
sValue == <<"V","a","l","u","e">>
\* "rgba(54, 162, 235, 1)" and "rgba(54, 162, 235, 0.2)"
sBlue == <<"r","g","b","a","(","5","4",","," ","1","6","2",","," ",
           "2","3","5",","," ","1",")">>
sBlueFill == <<"r","g","b","a","(","5","4",","," ","1","6","2",","," ",
               "2","3","5",","," ","0",".","2",")">>

(***************************************************************************)
(* JSON.stringify(value, null, gap), for the values of this model          *)
(* (integers; strings of printable characters).                            *)
(***************************************************************************)
QUOTE == "\""
BACKSLASH == "\\"
NEWLINE == "\n"

RECURSIVE NatChars(_)
NatChars(n) ==
  IF n < 10 THEN <<Digits[n + 1]>>
  ELSE NatChars(n \div 10) \o <<Digits[(n % 10) + 1]>>

NumChars(n) == IF n < 0 THEN <<"-">> \o NatChars(-n) ELSE NatChars(n)

EscapeChar(c) ==
  CASE c = QUOTE -> <<BACKSLASH, QUOTE>>
    [] c = BACKSLASH -> <<BACKSLASH, BACKSLASH>>
    [] c = NEWLINE -> <<BACKSLASH, "n">>
    [] OTHER -> <<c>>

RECURSIVE EscapeChars(_)
\* every character escaped, in order (halving keeps the recursion shallow)
EscapeChars(s) ==
  IF s = <<>> THEN <<>>
  ELSE IF Len(s) = 1 THEN EscapeChar(s[1])
  ELSE LET h == Len(s) \div 2
       IN EscapeChars(SubSeq(s, 1, h)) \o EscapeChars(SubSeq(s, h + 1, Len(s)))

QuoteString(s) == <<QUOTE>> \o EscapeChars(s) \o <<QUOTE>>

Spaces(n) == [i \in 1..n |-> " "]

RECURSIVE JoinChars(_, _)
JoinChars(parts, sep) ==
  IF parts = <<>> THEN <<>>
  ELSE IF Len(parts) = 1 THEN parts[1]
  ELSE parts[1] \o sep \o JoinChars(Tail(parts), sep)

\* an opening bracket, the parts, a closing bracket; with a gap each part
\* is on a line of its own, indented by gap * (depth + 1)
Bracket(open, parts, close, gap, depth) ==
  IF parts = <<>> THEN <<open, close>>
  ELSE IF gap = 0 THEN <<open>> \o JoinChars(parts, <<",">>) \o <<close>>
  ELSE <<open, NEWLINE>> \o Spaces(gap * (depth + 1))
       \o JoinChars(parts, <<",", NEWLINE>> \o Spaces(gap * (depth + 1)))
       \o <<NEWLINE>> \o Spaces(gap * depth) \o <<close>>

RECURSIVE SelectEntries(_)
\* the entries of an object that JSON.stringify writes: undefined is skipped
SelectEntries(es) ==
  IF es = <<>> THEN <<>>
  ELSE IF Head(es).val.t = "undefined" THEN SelectEntries(Tail(es))
  ELSE <<Head(es)>> \o SelectEntries(Tail(es))

RECURSIVE Stringify(_, _, _)
Stringify(x, gap, depth) ==
  CASE x.t = "null" -> <<"n","u","l","l">>
    [] x.t = "undefined" -> <<"n","u","l","l">>
    [] x.t = "boolean" ->
         IF x.v THEN <<"t","r","u","e">> ELSE <<"f","a","l","s","e">>
    [] x.t = "number" -> NumChars(x.v)
    [] x.t = "string" -> QuoteString(x.v)
    [] x.t = "array" ->
         Bracket("[", [i \in 1..Len(x.v) |-> Stringify(x.v[i], gap, depth + 1)],
                 "]", gap, depth)
    [] x.t = "object" ->
         LET es == SelectEntries(x.v)
         IN Bracket("{",
                    [i \in 1..Len(es) |->
                       QuoteString(es[i].k)
                       \o (IF gap = 0 THEN <<":">> ELSE <<":", " ">>)
                       \o Stringify(es[i].val, gap, depth + 1)],
                    "}", gap, depth)

\* JSON.stringify(x)
JSONstringify(x) == Stringify(x, 0, 0)
\* JSON.stringify(x, null, 2)
JSONstringifyPretty(x) == Stringify(x, 2, 0)

(***************************************************************************)
(* JSON.parse(text): a recursive-descent parser of JSON text restricted to *)
(* integer numbers and the escapes \" \\ \/ \n.  A result is               *)
(* [ok, val, pos]: pos is the index after the parsed value.                *)
(***************************************************************************)
ParseFail == [ok |-> FALSE, val |-> Undef, pos |-> 0]
ParseOk(val, pos) == [ok |-> TRUE, val |-> val, pos |-> pos]

IsWs(c) == c \in {" ", NEWLINE, "\t", "\r"}

\* the first index from i on that holds no white space, or Len(s) + 1
SkipWs(s, i) ==
  LET rest == {j \in i..Len(s) : ~IsWs(s[j])}
  IN IF rest = {} THEN (IF i > Len(s) THEN i ELSE Len(s) + 1)
     ELSE CHOOSE j \in rest : \A h \in rest : j <= h

Match(s, i, lit) ==
  /\ i + Len(lit) - 1 <= Len(s)
  /\ SubSeq(s, i, i + Len(lit) - 1) = lit

\* the number of consecutive backslashes of s[lo..k-1] that end at k - 1
BackslashesBefore(s, k, lo) ==
  LET others == {j \in lo..(k - 1) : s[j] # BACKSLASH}
  IN IF others = {} THEN k - lo
     ELSE k - 1 - (CHOOSE j \in others : \A h \in others : h <= j)

\* the index of the quote that closes the string literal whose characters
\* start at i (the first quote that is not escaped), or 0
ClosingQuote(s, i) ==
  LET quotes == {j \in i..Len(s) :
                   s[j] = QUOTE /\ BackslashesBefore(s, j, i) % 2 = 0}
  IN IF quotes = {} THEN 0
     ELSE CHOOSE j \in quotes : \A h \in quotes : j <= h

\* the character an escape sequence \c stands for, or none (<<>>)
Unescaped(c) ==
  IF c \in {QUOTE, BACKSLASH, "/"} THEN <<c>>
  ELSE IF c = "n" THEN <<NEWLINE>>
  ELSE <<>>

RECURSIVE Unescape(_)
\* the characters a string literal's body b stands for; the body is taken
\* apart between escape sequences, half by half
Unescape(b) ==
  IF \A k \in 1..Len(b) : b[k] # BACKSLASH THEN ParseOk(b, 0)
  ELSE IF Len(b) = 1 THEN ParseFail
  ELSE IF Len(b) = 2
       THEN IF b[1] = BACKSLASH /\ Unescaped(b[2]) # <<>>
            THEN ParseOk(Unescaped(b[2]), 0)
            ELSE ParseFail
  ELSE LET half == Len(b) \div 2
           h == IF BackslashesBefore(b, half + 1, 1) % 2 = 1
                THEN half + 1 ELSE half
           left == Unescape(SubSeq(b, 1, h))
           right == Unescape(SubSeq(b, h + 1, Len(b)))
       IN IF left.ok /\ right.ok THEN ParseOk(left.val \o right.val, 0)
          ELSE ParseFail

\* s[i..] is the rest of a string literal whose opening quote is consumed
ScanString(s, i, acc) ==
  LET close == ClosingQuote(s, i)
      body == SubSeq(s, i, close - 1)
  IN IF close = 0 THEN ParseFail
     ELSE IF \E k \in 1..Len(body) : body[k] = NEWLINE THEN ParseFail
     ELSE IF ~Unescape(body).ok THEN ParseFail
     ELSE ParseOk(acc \o Unescape(body).val, close + 1)

RECURSIVE ScanDigits(_, _, _)
ScanDigits(s, j, acc) ==
  IF j <= Len(s) /\ IsDigit(s[j])
  THEN ScanDigits(s, j + 1, 10 * acc + DigitVal(s[j]))
  ELSE ParseOk(acc, j)

\* an integer: an optional minus, then 0 or a digit sequence without a
\* leading zero
ParseNumber(s, i) ==
  LET neg == s[i] = "-"
      j == IF neg THEN i + 1 ELSE i
  IN IF j > Len(s) \/ ~IsDigit(s[j]) THEN ParseFail
     ELSE IF s[j] = "0"
          THEN IF j + 1 <= Len(s) /\ IsDigit(s[j + 1]) THEN ParseFail
               ELSE ParseOk(Num(0), j + 1)
     ELSE LET r == ScanDigits(s, j, 0)
          IN ParseOk(Num(IF neg THEN -r.val ELSE r.val), r.pos)

RECURSIVE ParseValue(_, _)
RECURSIVE ParseElements(_, _, _)
RECURSIVE ParseMembers(_, _, _)

\* s[i..] after "[" or "," of an array whose elements so far are acc
ParseElements(s, i, acc) ==
  LET r == ParseValue(s, i)
  IN IF ~r.ok THEN ParseFail
     ELSE LET j == SkipWs(s, r.pos)
          IN IF j > Len(s) THEN ParseFail
             ELSE IF s[j] = "]" THEN ParseOk(Arr(Append(acc, r.val)), j + 1)
             ELSE IF s[j] = "," THEN ParseElements(s, j + 1, Append(acc, r.val))
             ELSE ParseFail

\* s[i..] after "{" or "," of an object acc; a repeated key keeps its first
\* position and takes its last value
ParseMembers(s, i, acc) ==
  LET j == SkipWs(s, i)
  IN IF j > Len(s) \/ s[j] # QUOTE THEN ParseFail
     ELSE LET key == ScanString(s, j + 1, <<>>)
          IN IF ~key.ok THEN ParseFail
             ELSE LET c == SkipWs(s, key.pos)
                  IN IF c > Len(s) \/ s[c] # ":" THEN ParseFail
                     ELSE LET r == ParseValue(s, c + 1)
                          IN IF ~r.ok THEN ParseFail
                             ELSE LET e == SkipWs(s, r.pos)
                                      obj == Put(acc, key.val, r.val)
                                  IN IF e > Len(s) THEN ParseFail
                                     ELSE IF s[e] = "}" THEN ParseOk(obj, e + 1)
                                     ELSE IF s[e] = ","
                                          THEN ParseMembers(s, e + 1, obj)
                                     ELSE ParseFail

ParseValue(s, i0) ==
  LET i == SkipWs(s, i0)
  IN IF i > Len(s) THEN ParseFail
     ELSE IF s[i] = "n"
          THEN IF Match(s, i, <<"n","u","l","l">>)
               THEN ParseOk(Null, i + 4) ELSE ParseFail
     ELSE IF s[i] = "t"
          THEN IF Match(s, i, <<"t","r","u","e">>)
               THEN ParseOk(Bool(TRUE), i + 4) ELSE ParseFail
     ELSE IF s[i] = "f"
          THEN IF Match(s, i, <<"f","a","l","s","e">>)
               THEN ParseOk(Bool(FALSE), i + 5) ELSE ParseFail
     ELSE IF s[i] = QUOTE
          THEN LET r == ScanString(s, i + 1, <<>>)
               IN IF r.ok THEN ParseOk(Str(r.val), r.pos) ELSE ParseFail
     ELSE IF s[i] = "-" \/ IsDigit(s[i]) THEN ParseNumber(s, i)
     ELSE IF s[i] = "["
          THEN LET j == SkipWs(s, i + 1)
               IN IF j <= Len(s) /\ s[j] = "]" THEN ParseOk(Arr(<<>>), j + 1)
                  ELSE ParseElements(s, i + 1, <<>>)
     ELSE IF s[i] = "{"
          THEN LET j == SkipWs(s, i + 1)
               IN IF j <= Len(s) /\ s[j] = "}" THEN ParseOk(Obj(<<>>), j + 1)
                  ELSE ParseMembers(s, i + 1, Obj(<<>>))
     ELSE ParseFail

\* JSON.parse: [ok |-> TRUE, val |-> the value] or a SyntaxError (ok FALSE);
\* text after the value is a SyntaxError
JSONparse(s) ==
  LET r == ParseValue(s, 1)
  IN IF r.ok /\ SkipWs(s, r.pos) = Len(s) + 1 THEN r ELSE ParseFail

\* keys of the chart options renderChart always sets
kResponsive == <<"r","e","s","p","o","n","s","i","v","e">>
kMaintainAspectRatio == <<"m","a","i","n","t","a","i","n","A","s","p","e","c","t","R","a","t","i","o">>
kPlugins == <<"p","l","u","g","i","n","s">>
kLegend == <<"l","e","g","e","n","d">>
kPosition == <<"p","o","s","i","t","i","o","n">>
kDisplay == <<"d","i","s","p","l","a","y">>
kScales == <<"s","c","a","l","e","s">>
kTicks == <<"t","i","c","k","s">>
kFont == <<"f","o","n","t">>
kSize == <<"s","i","z","e">>
kBoxWidth == <<"b","o","x","W","i","d","t","h">>
sTop == <<"t","o","p">>

(***************************************************************************)
(* renderChart(rawPayload), ChatInterface.tsx lines 151-257, one action    *)
(* per numbered section of the function.                                   *)
(***************************************************************************)
VARIABLES
  received,     \* the value renderChart was called with, as it was then
  rawPayload,   \* the value the parameter refers to now (objects are
                \* shared with chartPayload and change when it is adapted)
  chartPayload, \* the local variable chartPayload
  alias,        \* what chartPayload refers to: "raw" (rawPayload itself),
                \* "raw.chart_data" (its chart_data member) or "parsed"
                \* (a value JSON.parse created)
  pc,           \* the section of renderChart to run next
  fired,        \* the adaptation rules (Caso D, A, B, C) that were applied
  console,      \* what console.error / console.warn were called with
  outcome       \* what renderChart returned, or the exception it threw

VARIABLES
  delivered     \* the chart_data member of the agent's response as the API
                \* delivered it (line 122), before any call of renderChart

chartVars ==
  <<received, rawPayload, chartPayload, alias, pc, fired, console, outcome,
    delivered>>

\* state of the EuropePriceMap component (part 2 of the model)
VARIABLES
  date,         \* the date prop (line 83)
  requests,     \* the load() calls that have not settled yet, oldest first
  apiHours,     \* useState<HourlyPrices | null>(null), line 85
  hasData,      \* useState(false), line 86
  selectedHour, \* useState(12), line 88
  isLoading,    \* useState(true), line 91
  minPrice,     \* the colour range useMemo holds (lines 153-183), as of
  maxPrice      \* the last render

mapVars ==
  <<date, requests, apiHours, hasData, selectedHour, isLoading,
    minPrice, maxPrice>>

\* one call of calculateDynamicColor (part 3 of the model)
VARIABLES
  price,        \* the parameter price
  min,          \* the parameter min
  max,          \* the parameter max
  fillColor     \* the colour the call returned

colorVars == <<price, min, max, fillColor>>

\* state of the ForecastsChart component (part 4 of the model)
VARIABLES
  highlightedSeries, \* useState<string | null>("Spot Price"), line 26
  lines,             \* the props of the <Line> elements of the last render
  legendEvents       \* the clicks so far, oldest first: the dataKey of the
                     \* legend item (null for the Reset button) and the
                     \* value highlightedSeries took

forecastVars == <<highlightedSeries, lines, legendEvents>>

\* state of the Index page (part 5 of the model)
VARIABLES
  selectedDate,   \* useState<Date>(new Date(2026, 0, 21)), pages/Index.tsx line 31
  region,         \* useState<string>("CH"), line 32
  apiData,        \* useState<VolatilityResponse | null>(null), line 33
  isLoadingIndex, \* isLoading of the page, useState(false), line 34
  fetches         \* the fetchData() calls that have not settled yet, oldest
                  \* first: the area and date each one posted

indexVars == <<selectedDate, region, apiData, isLoadingIndex, fetches>>

\* state of the chat of the ChatInterface component (part 6 of the model)
VARIABLES
  messages,       \* useState<Message[]>([]), ChatInterface.tsx line 64
  input,          \* useState(""), line 65
  isLoadingChat,  \* isLoading of the chat, useState(false), line 67
  sessionId,      \* useState<string | null>(null), line 70
  posted,         \* the bodies of the POST requests that have not been
                  \* answered yet
  exchanges       \* what went over the network so far, oldest first:
                  \* requests, responses and failures

chatVars == <<messages, input, isLoadingChat, sessionId, posted, exchanges>>

\* the panels of parts 4 to 6
panelVars == <<forecastVars, indexVars, chatVars>>

vars == <<chartVars, mapVars, colorVars, panelVars>>

\* the chat panel alone: no price map is mounted and no colour is computed
MapUnused ==
  /\ date = ""
  /\ requests = <<>>
  /\ apiHours = Null
  /\ hasData = FALSE
  /\ selectedHour = 12
  /\ isLoading = TRUE
  /\ minPrice = Num(0)
  /\ maxPrice = Num(100)

ColorUnused ==
  /\ price = 0
  /\ min = 0
  /\ max = 0
  /\ fillColor = [css |-> "none", hex |-> "", hue |-> [num |-> 0, den |-> 1],
                  s |-> 0, l |-> 0]

\* no forecasts chart is mounted
ForecastsUnused ==
  /\ highlightedSeries = Null
  /\ lines = <<>>
  /\ legendEvents = <<>>

\* no page is mounted
IndexUnused ==
  /\ selectedDate = ""
  /\ region = ""
  /\ apiData = Null
  /\ isLoadingIndex = FALSE
  /\ fetches = <<>>

\* no chat is mounted
ChatUnused ==
  /\ messages = <<>>
  /\ input = <<>>
  /\ isLoadingChat = FALSE
  /\ sessionId = Null
  /\ posted = <<>>
  /\ exchanges = <<>>

PanelsUnused == ForecastsUnused /\ IndexUnused /\ ChatUnused

Pending == [kind |-> "pending", chart |-> "", data |-> Undef,
            options |-> Undef, debug |-> <<>>]
\* `return null`
ReturnedNull == [Pending EXCEPT !.kind = "null"]
\* an uncaught TypeError leaves renderChart
ThrewTypeError == [Pending EXCEPT !.kind = "TypeError"]
\* the yellow "Chart data unavailable (Structure mismatch)." block with the
\* DEBUG DATA text
StructureMismatch(debug) ==
  [Pending EXCEPT !.kind = "mismatch", !.debug = debug]
\* <Line data options/> or <Bar data options/>
ChartElement(component, data, options) ==
  [Pending EXCEPT !.kind = "element", !.chart = component, !.data = data,
                  !.options = options]
\* the red "Error rendering visualization." paragraph
RenderError == [Pending EXCEPT !.kind = "renderError"]

\* chartPayload.<member> = ... or chartPayload.data.<member> = ...: the
\* object chartPayload refers to becomes p; rawPayload sees the change when
\* it is the same object or contains it.
AliasedRaw(raw, al, p) ==
  CASE al = "raw" -> p
    [] al = "raw.chart_data" -> Put(raw, kChartData, p)
    [] OTHER -> raw

Finish(result) ==
  /\ outcome' = result
  /\ pc' = "done"

\* line 152-154
Enter ==
  /\ pc = "entry"
  /\ IF ~Truthy(rawPayload)
     THEN /\ Finish(ReturnedNull)
          /\ UNCHANGED <<chartPayload, alias>>
     ELSE /\ chartPayload' = rawPayload
          /\ alias' = "raw"
          /\ pc' = "decode"
          /\ UNCHANGED outcome
  /\ UNCHANGED <<received, rawPayload, fired, console>>
  /\ UNCHANGED <<delivered, mapVars, colorVars, panelVars>>

\* lines 157-163: the value chartPayload holds after section 0. A string
\* that JSON.parse rejects stays the string.
Decoded(raw) ==
  IF raw.t = "string" /\ JSONparse(raw.v).ok THEN JSONparse(raw.v).val ELSE raw

\* the catch block of line 160 ran
ParseFailed(raw) == raw.t = "string" /\ ~JSONparse(raw.v).ok

\* 0. STRING PARSING FIX, lines 156-163: a failed parse is logged and
\* chartPayload stays the string
Decode ==
  /\ pc = "decode"
  /\ chartPayload' = Decoded(rawPayload)
  /\ alias' = IF rawPayload.t = "string" /\ ~ParseFailed(rawPayload)
              THEN "parsed" ELSE alias
  /\ console' = IF ParseFailed(rawPayload)
                THEN Append(console, "Failed to parse chart payload string")
                ELSE console
  /\ pc' = "unwrap"
  /\ UNCHANGED <<received, rawPayload, fired, outcome>>
  /\ UNCHANGED <<delivered, mapVars, colorVars, panelVars>>

\* line 166: chartPayload.chart_data is truthy
UnwrapApplies(p) == Truthy(Get(p, kChartData))

\* lines 166-168: the value chartPayload holds after section 1
Unwrapped(p) == IF UnwrapApplies(p) THEN Get(p, kChartData) ELSE p

\* 1. UNWRAPPING, lines 165-168: the first property read of chartPayload
Unwrap ==
  /\ pc = "unwrap"
  /\ IF ~CanRead(chartPayload)
     THEN /\ Finish(ThrewTypeError)
          /\ UNCHANGED <<chartPayload, alias>>
     ELSE /\ chartPayload' = Unwrapped(chartPayload)
          /\ alias' = IF UnwrapApplies(chartPayload) /\ alias = "raw"
                      THEN "raw.chart_data" ELSE alias
          /\ pc' = "casoD"
          /\ UNCHANGED outcome
  /\ UNCHANGED <<received, rawPayload, fired, console>>
  /\ UNCHANGED <<delivered, mapVars, colorVars, panelVars>>

\* Caso D, line 173 without the two Array.isArray tests
AxisPairApplies_NoArrayTest(p) == Truthy(Get(p, kData))

\* Caso D, line 173
AxisPairApplies(p) ==
  /\ Truthy(Get(p, kData))
  /\ IsArray(Get(Get(p, kData), kX))
  /\ IsArray(Get(Get(p, kData), kY))

\* line 176 with title tried before ylabel
AxisPairLabel_TitleFirst(d) ==
  OrElse(Get(d, kTitle), OrElse(Get(d, kYlabel), Str(sValue)))

\* line 176
AxisPairLabel(d) ==
  OrElse(Get(d, kYlabel), OrElse(Get(d, kTitle), Str(sValue)))

\* Caso D, lines 174-187
AxisPairAdapt(p) ==
  LET d == Get(p, kData)
  IN Put(p, kData,
         Obj(<<Entry(kLabels, Get(d, kX)),
               Entry(kDatasets,
                     Arr(<<Obj(<<Entry(kLabel, AxisPairLabel(d)),
                                 Entry(kData, Get(d, kY)),
                                 Entry(kBorderColor, Str(sBlue)),
                                 Entry(kBackgroundColor, Str(sBlueFill)),
                                 Entry(kBorderWidth, Num(2))>>)>>))>>))

\* line 191 without the test of chartPayload.datasets, on an object
MissingWrapperApplies_NoDatasetsTest(p) ==
  /\ p.t = "object"
  /\ ~Truthy(Get(p, kData))

\* Caso A, line 191
MissingWrapperApplies(p) ==
  /\ ~Truthy(Get(p, kData))
  /\ Truthy(Get(p, kDatasets))

\* Caso A, lines 192-195 with the top-level labels left behind
MissingWrapperAdapt_NoLabels(p) ==
  Put(p, kData,
      Obj(<<Entry(kLabels, Arr(<<>>)), Entry(kDatasets, Get(p, kDatasets))>>))

\* Caso A, lines 192-195
MissingWrapperAdapt(p) ==
  Put(p, kData,
      Obj(<<Entry(kLabels, OrElse(Get(p, kLabels), Arr(<<>>))),
            Entry(kDatasets, Get(p, kDatasets))>>))

\* lines 200-202 and 209 without the Array.isArray test
AsCollection_AlwaysWrap(dataset) == Arr(<<dataset>>)

\* lines 200-202 and 209: a dataset that is an array is the collection
AsCollection(dataset) ==
  IF IsArray(dataset) THEN dataset ELSE Arr(<<dataset>>)

\* Caso B, line 199
SingularApplies(p) ==
  /\ Truthy(Get(p, kData))
  /\ Truthy(Get(Get(p, kData), kDataset))
  /\ ~Truthy(Get(Get(p, kData), kDatasets))

\* Caso B, lines 200-202
SingularAdapt(p) ==
  LET d == Get(p, kData)
  IN Put(p, kData, Put(d, kDatasets, AsCollection(Get(d, kDataset))))

\* line 206 without the test of chartPayload.data
RootSingularApplies_NoDataTest(p) == Truthy(Get(p, kDataset))

\* Caso C, line 206
RootSingularApplies(p) ==
  /\ ~Truthy(Get(p, kData))
  /\ Truthy(Get(p, kDataset))

\* Caso C, lines 207-210
RootSingularAdapt(p) ==
  Put(p, kData,
      Obj(<<Entry(kLabels, OrElse(Get(p, kLabels), Arr(<<>>))),
            Entry(kDatasets, AsCollection(Get(p, kDataset)))>>))

\* one adaptation rule of section 2: when it applies, chartPayload (and
\* through it the object rawPayload shares with it) is changed
Adapted(rule, p) ==
  /\ chartPayload' = p
  /\ rawPayload' = AliasedRaw(rawPayload, alias, p)
  /\ fired' = fired \cup {rule}

NotAdapted == UNCHANGED <<chartPayload, rawPayload, fired>>

CasoD ==
  /\ pc = "casoD"
  /\ IF AxisPairApplies(chartPayload)
     THEN Adapted("D", AxisPairAdapt(chartPayload))
     ELSE NotAdapted
  /\ pc' = "casoA"
  /\ UNCHANGED <<received, alias, console, outcome>>
  /\ UNCHANGED <<delivered, mapVars, colorVars, panelVars>>

CasoA ==
  /\ pc = "casoA"
  /\ IF MissingWrapperApplies(chartPayload)
     THEN Adapted("A", MissingWrapperAdapt(chartPayload))
     ELSE NotAdapted
  /\ pc' = "casoB"
  /\ UNCHANGED <<received, alias, console, outcome>>
  /\ UNCHANGED <<delivered, mapVars, colorVars, panelVars>>

CasoB ==
  /\ pc = "casoB"
  /\ IF SingularApplies(chartPayload)
     THEN Adapted("B", SingularAdapt(chartPayload))
     ELSE NotAdapted
  /\ pc' = "casoC"
  /\ UNCHANGED <<received, alias, console, outcome>>
  /\ UNCHANGED <<delivered, mapVars, colorVars, panelVars>>

CasoC ==
  /\ pc = "casoC"
  /\ IF RootSingularApplies(chartPayload)
     THEN Adapted("C", RootSingularAdapt(chartPayload))
     ELSE NotAdapted
  /\ pc' = "validate"
  /\ UNCHANGED <<received, alias, console, outcome>>
  /\ UNCHANGED <<delivered, mapVars, colorVars, panelVars>>

\* line 214 guarded against a missing data member instead of testing it:
\* chartPayload.data && !chartPayload.data.datasets
ValidationFails_Guarded(p) ==
  /\ Truthy(Get(p, kData))
  /\ ~Truthy(Get(Get(p, kData), kDatasets))

\* line 214
ValidationFails(p) ==
  \/ ~Truthy(Get(p, kData))
  \/ ~Truthy(Get(Get(p, kData), kDatasets))

\* 3. FINAL VALIDATION & DEBUG UI, lines 213-224
Validate ==
  /\ pc = "validate"
  /\ IF ValidationFails(chartPayload)
     THEN /\ console' = Append(console, "Chart data malformed:")
          /\ Finish(StructureMismatch(JSONstringifyPretty(rawPayload)))
     ELSE /\ pc' = "render"
          /\ UNCHANGED <<console, outcome>>
  /\ UNCHANGED <<received, rawPayload, chartPayload, alias, fired>>
  /\ UNCHANGED <<delivered, mapVars, colorVars, panelVars>>

\* { ...options, <the fixed options> }, lines 228-240: the own entries of an
\* options object, overwritten and followed by the fixed ones
FontSize(n) == Obj(<<Entry(kFont, Obj(<<Entry(kSize, Num(n))>>))>>)

chartOptions(options) ==
  LET base == IF options.t = "object" THEN options ELSE Obj(<<>>)
      legend == Obj(<<Entry(kPosition, Str(sTop)),
                      Entry(kLabels, Put(FontSize(10), kBoxWidth, Num(10)))>>)
      plugins == Obj(<<Entry(kLegend, legend),
                       Entry(kTitle, Obj(<<Entry(kDisplay, Bool(FALSE))>>))>>)
      scales == Obj(<<Entry(kX, Obj(<<Entry(kTicks, FontSize(9))>>)),
                      Entry(kY, Obj(<<Entry(kTicks, FontSize(9))>>))>>)
  IN Put(Put(Put(Put(base, kResponsive, Bool(TRUE)),
                 kMaintainAspectRatio, Bool(FALSE)),
             kPlugins, plugins),
         kScales, scales)

\* line 245: type ? type.toLowerCase() : 'line'; a truthy type that is not a
\* string has no toLowerCase method and the call throws a TypeError
LowerCaseThrows(type) == Truthy(type) /\ type.t # "string"

chartType(type) == IF Truthy(type) THEN toLowerCase(type.v) ELSE sLine

\* lines 246-253
ChartComponent(kind) ==
  CASE kind = sLine -> "Line"
    [] kind = sBar -> "Bar"
    [] OTHER -> "Line"

\* lines 226-256
Render ==
  /\ pc = "render"
  /\ LET type == Get(chartPayload, kType)
         data == Get(chartPayload, kData)
         options == Get(chartPayload, kOptions)
     IN IF LowerCaseThrows(type)
        THEN Finish(RenderError)
        ELSE Finish(ChartElement(ChartComponent(chartType(type)), data,
                                 chartOptions(options)))
  /\ UNCHANGED <<received, rawPayload, chartPayload, alias, fired, console>>
  /\ UNCHANGED <<delivered, mapVars, colorVars, panelVars>>

\* React calls renderChart(message.chartData) again on every render of the
\* message list (lines 374-380), with the object as earlier calls left it
Rerender ==
  /\ pc = "done"
  /\ outcome.kind # "TypeError"
  /\ received' = rawPayload
  /\ chartPayload' = Undef
  /\ alias' = "raw"
  /\ pc' = "entry"
  /\ fired' = {}
  /\ console' = <<>>
  /\ outcome' = Pending
  /\ UNCHANGED rawPayload
  /\ UNCHANGED <<delivered, mapVars, colorVars, panelVars>>

(***************************************************************************)
(* The payloads renderChart is called with: what the agent may put in the  *)
(* chart_data member of its JSON response (line 122).                      *)
(***************************************************************************)
sPrice == <<"P","r","i","c","e">>
sTitleText == <<"G","a","s">>
sPie == <<"P","i","e">>
sHello == <<"h","e","l","l","o">>

\* n values 10, 20, ...
Values(n) == Arr([i \in 1..n |-> Num(10 * i)])
\* n labels "a", "b", ...
Labels(n) == Arr([i \in 1..n |-> Str(<<Lower[i]>>)])
\* n points 0, 1, ... of an x axis
Axis(n) == Arr([i \in 1..n |-> Num(i - 1)])
\* the i-th series, named "A", "B", ..., with n values
Series(i, n) ==
  Obj(<<Entry(kLabel, Str(<<Upper[i]>>)), Entry(kData, Values(n))>>)

Lengths == 0..MaxLen

\* the series collections of up to MaxSeries series
SeriesLists ==
  UNION {{Arr([i \in 1..k |-> Series(i, f[i])]) : f \in [1..k -> Lengths]} :
           k \in 0..MaxSeries}

\* an object of the members whose value is not undefined
ObjOf(entries) == Obj(SelectEntries(entries))

Absent == {Undef}

\* { labels, datasets }
CanonicalData ==
  {ObjOf(<<Entry(kLabels, l), Entry(kDatasets, ds)>>) :
     l \in {Labels(n) : n \in Lengths} \cup Absent, ds \in SeriesLists}

\* { x, y, ylabel, title }
AxisData ==
  {ObjOf(<<Entry(kX, Axis(n)), Entry(kY, y), Entry(kYlabel, yl), Entry(kTitle, ti)>>) :
     n \in Lengths,
     y \in {Values(m) : m \in Lengths} \cup {Num(5)},
     yl \in {Undef, Str(sPrice), Str(<<>>)},
     ti \in {Undef, Str(sTitleText)}}

SingularValues ==
  {Series(1, n) : n \in Lengths} \cup {Arr(<<>>), Arr(<<Series(1, 1), Series(2, 1)>>)}

\* { labels, dataset, datasets, x, y }
SingularData ==
  {ObjOf(<<Entry(kLabels, l), Entry(kDataset, d), Entry(kDatasets, ds),
           Entry(kX, x), Entry(kY, x)>>) :
     l \in {Undef, Labels(1)},
     d \in SingularValues,
     ds \in {Undef, Null, Arr(<<Series(2, 1)>>)},
     x \in {Undef, Axis(1)}}

OtherData ==
  {Obj(<<>>), Null, Num(5), Str(sHello), Bool(TRUE), Arr(<<>>),
   ObjOf(<<Entry(kLabels, Labels(1))>>)}

DataShapes == CanonicalData \cup AxisData \cup SingularData \cup OtherData

TypeValues ==
  {Undef, Str(sLine), Str(sBar), Str(toLowerCase(sPie)), Str(sPie),
   Str(<<"B","A","R">>), Str(<<"B","a","r">>), Str(<<"L","I","N","E">>),
   Str(<<>>), Null, Num(0), Num(5), Bool(TRUE), Arr(<<>>), Obj(<<>>)}

OneSeriesData ==
  ObjOf(<<Entry(kLabels, Labels(1)), Entry(kDatasets, Arr(<<Series(1, 1)>>))>>)

\* { type, data, options }
WithData ==
  {ObjOf(<<Entry(kType, ty), Entry(kData, d), Entry(kOptions, op)>>) :
     ty \in {Undef, Str(sBar)}, d \in DataShapes, op \in {Undef}}
  \cup
  {ObjOf(<<Entry(kType, ty), Entry(kData, OneSeriesData), Entry(kOptions, op)>>) :
     ty \in TypeValues,
     op \in {Undef, Obj(<<Entry(kResponsive, Bool(FALSE))>>)}}

\* { type, labels, datasets, dataset } without a data member, or with a
\* data member next to the top-level ones
TopLevel ==
  {ObjOf(<<Entry(kType, ty), Entry(kLabels, l), Entry(kDatasets, ds),
           Entry(kDataset, d), Entry(kData, da)>>) :
     ty \in {Undef, Str(sBar)},
     l \in {Undef, Labels(1), Labels(MaxLen)},
     ds \in SeriesLists \cup {Undef},
     d \in SingularValues \cup {Undef},
     da \in {Undef}}
  \cup
  {ObjOf(<<Entry(kLabels, Labels(1)), Entry(kDatasets, ds), Entry(kDataset, d),
           Entry(kData, da)>>) :
     ds \in {Undef, Arr(<<Series(1, 1)>>)},
     d \in {Undef, Series(2, 1)},
     da \in {Null, Obj(<<>>), OneSeriesData,
             ObjOf(<<Entry(kX, Axis(1)), Entry(kY, Values(1))>>)}}

\* what an envelope { chart_data: ... } may carry
Wrappable ==
  {ObjOf(<<Entry(kType, Str(sBar)), Entry(kData, d)>>) :
     d \in {OneSeriesData, Obj(<<>>),
            ObjOf(<<Entry(kX, Axis(MaxLen)), Entry(kY, Values(MaxLen)),
                    Entry(kYlabel, Str(sPrice))>>),
            ObjOf(<<Entry(kDataset, Series(1, 1))>>)}}
  \cup {ObjOf(<<Entry(kDatasets, Arr(<<Series(1, 1)>>))>>),
        ObjOf(<<Entry(kDataset, Series(1, 1)), Entry(kLabels, Labels(1))>>),
        Obj(<<>>), Null, Num(0), Num(5), Str(sHello), Bool(TRUE), Arr(<<>>)}

\* { chart_data, data }
Wrapped ==
  {ObjOf(<<Entry(kChartData, w), Entry(kData, d)>>) :
     w \in Wrappable,
     d \in {Undef, OneSeriesData,
            ObjOf(<<Entry(kX, Axis(1)), Entry(kY, Values(1))>>)}}
  \cup {ObjOf(<<Entry(kChartData, ObjOf(<<Entry(kChartData, w)>>))>>) :
          w \in {ObjOf(<<Entry(kData, OneSeriesData)>>)}}

\* already decoded values that are no chart description
Primitives ==
  {Undef, Null, Bool(FALSE), Bool(TRUE), Num(0), Num(5), Str(<<>>),
   Arr(<<>>), Arr(<<Num(1)>>), Obj(<<>>)}

\* the values a string payload may encode
Encodable ==
  {Null, Bool(FALSE), Bool(TRUE), Num(0), Num(5), Str(sHello), Arr(<<>>),
   Arr(<<Num(1)>>), Obj(<<>>)}
  \cup {ObjOf(<<Entry(kType, ty), Entry(kData, OneSeriesData)>>) :
          ty \in {Undef, Str(<<"B","a","r">>), Num(5)}}
  \cup {ObjOf(<<Entry(kData, d)>>) :
          d \in {ObjOf(<<Entry(kX, Axis(MaxLen)), Entry(kY, Values(MaxLen)),
                         Entry(kYlabel, Str(sPrice))>>),
                 ObjOf(<<Entry(kDataset, Series(1, 1))>>),
                 ObjOf(<<Entry(kLabels, Labels(1)), Entry(kDatasets, Arr(<<>>))>>),
                 ObjOf(<<Entry(kLabels, Labels(1)),
                         Entry(kDatasets, Arr(<<Series(1, MaxLen)>>))>>)}}
  \cup {ObjOf(<<Entry(kDatasets, Arr(<<Series(1, 1)>>))>>),
        ObjOf(<<Entry(kDataset, Series(1, 1))>>),
        ObjOf(<<Entry(kChartData, ObjOf(<<Entry(kData, OneSeriesData)>>))>>),
        ObjOf(<<Entry(kChartData, Null)>>)}

\* the JSON texts of the encodable values, compact and indented; texts cut
\* short or followed by a stray character; a text that is no JSON at all;
\* a text that encodes a JSON text
EncodedTexts ==
  LET texts == {JSONstringify(v) : v \in Encodable}
               \cup {JSONstringifyPretty(v) : v \in Encodable}
  IN texts
     \cup {SubSeq(t, 1, Len(t) - 1) : t \in texts}
     \cup {t \o <<"}">> : t \in texts}
     \cup {sHello, <<" ">>, <<"{","d","a","t","a",":","1","}">>}
     \cup {JSONstringify(Str(JSONstringify(v))) :
             v \in {ObjOf(<<Entry(kData, OneSeriesData)>>)}}

Strings == {Str(t) : t \in EncodedTexts}

\* the payloads the specification of the normalizer names
ExampleAxisPair ==
  ObjOf(<<Entry(kData,
              ObjOf(<<Entry(kX, Axis(3)), Entry(kY, Values(3)),
                      Entry(kYlabel, Str(sPrice))>>))>>)

Examples ==
  {ExampleAxisPair, Obj(<<>>)}
  \cup {ObjOf(<<Entry(kType, Num(5)), Entry(kData, d)>>) :
          d \in {ObjOf(<<Entry(kX, Axis(1)), Entry(kY, Values(1))>>),
                 ObjOf(<<Entry(kDataset, Series(1, 1))>>)}}
  \cup {ObjOf(<<Entry(kType, Num(5)), Entry(kDatasets, Arr(<<Series(1, 1)>>))>>),
        ObjOf(<<Entry(kType, Num(5)), Entry(kDataset, Series(1, 1))>>)}

RawPayloads ==
  WithData \cup TopLevel \cup Wrapped \cup Primitives \cup Strings \cup Examples

Init ==
  /\ received \in RawPayloads
  /\ rawPayload = received
  /\ chartPayload = Undef
  /\ alias = "raw"
  /\ pc = "entry"
  /\ fired = {}
  /\ console = <<>>
  /\ outcome = Pending
  /\ delivered = received
  /\ MapUnused
  /\ ColorUnused
  /\ PanelsUnused

Next ==
  \/ Enter
  \/ Decode
  \/ Unwrap
  \/ CasoD
  \/ CasoA
  \/ CasoB
  \/ CasoC
  \/ Validate
  \/ Render
  \/ Rerender

Spec == Init /\ [][Next]_vars

(***************************************************************************)
(* Properties of the chart payload normalizer.                             *)
(***************************************************************************)
\* the payload the adaptation rules of section 2 start from
AtRules(raw) == Unwrapped(Decoded(raw))

\* renderChart has returned or thrown
Returned == pc = "done"

\* the call passed the validation of section 3
Accepted == Returned /\ outcome.kind \in {"element", "renderError"}

\* C1: renderChart is total: for every payload the caller passes (a truthy
\* value, line 374) it returns a chart or the structure-mismatch block and
\* never throws.
C1_RenderChartTotal ==
  (Returned /\ Truthy(received)) => outcome.kind \in {"element", "mismatch"}

\* C2: a string payload that is not valid JSON short-circuits: no unwrap,
\* adaptation or validation section runs after the failed parse, and the
\* failure returned is not the structure-mismatch one.
C2_UnparseableShortCircuits ==
  (Truthy(received) /\ ParseFailed(received)) =>
    /\ pc \notin {"casoD", "casoA", "casoB", "casoC", "validate", "render"}
    /\ Returned => outcome.kind # "mismatch"

\* every series of data has as many values as data has labels
LengthsMatch(data) ==
  LET labels == Get(data, kLabels)
      datasets == Get(data, kDatasets)
  IN /\ IsArray(labels)
     /\ IsArray(datasets)
     /\ \A i \in 1..Len(datasets.v) :
          /\ IsArray(Get(datasets.v[i], kData))
          /\ Len(Get(datasets.v[i], kData).v) = Len(labels.v)

\* C3: every payload handed to the Line/Bar renderer has every series'
\* value sequence of the same length as the label sequence.
C3_AcceptedLengthsMatch ==
  (Returned /\ outcome.kind = "element") => LengthsMatch(outcome.data)

\* C4: a series collection with zero series is never passed to the
\* renderer.
C4_EmptySeriesRejected ==
  (Returned /\ outcome.kind = "element") =>
    Get(outcome.data, kDatasets) # Arr(<<>>)

\* a decoded object that has none of data, datasets, dataset, chart_data
ExposesNothing(p) ==
  /\ p.t = "object"
  /\ ~Has(p, kData)
  /\ ~Has(p, kDatasets)
  /\ ~Has(p, kDataset)
  /\ ~Has(p, kChartData)

\* C5: a decoded object exposing none of data, datasets, dataset,
\* chart_data (the empty object among them) yields the structure-mismatch
\* block, and renderChart does not throw.
C5_EmptyObjectMismatch ==
  (Returned /\ ExposesNothing(Decoded(received))) =>
    /\ outcome.kind = "mismatch"
    /\ fired = {}

\* C5 witness: renderChart has returned the mismatch block for {}, and for
\* the text "{}"
C5_Witness ==
  /\ Returned
  /\ received \in {Obj(<<>>), Str(<<"{", "}">>)}
  /\ outcome.kind = "mismatch"

\* the member names of an object
Keys(p) == {p.v[i].k : i \in 1..Len(p.v)}

\* the canonical shape: { type: 'line' | 'bar', data: { labels, datasets },
\* options? } with at least one series and matching lengths
IsCanonical(p) ==
  /\ p.t = "object"
  /\ {kType, kData} \subseteq Keys(p)
  /\ Keys(p) \subseteq {kType, kData, kOptions}
  /\ Get(p, kType) \in {Str(sLine), Str(sBar)}
  /\ Get(p, kData).t = "object"
  /\ Keys(Get(p, kData)) = {kLabels, kDatasets}
  /\ LengthsMatch(Get(p, kData))
  /\ Get(Get(p, kData), kDatasets) # Arr(<<>>)
  /\ Has(p, kOptions) => Get(p, kOptions).t = "object"

\* C6: normalization is the identity on a payload already in canonical
\* shape: no section changes the payload, no adaptation rule applies, and
\* the renderer gets the component of the payload's type with the
\* payload's data (its labels and datasets).
C6_IdentityOnCanonical ==
  IsCanonical(received) =>
    /\ rawPayload = received
    /\ chartPayload \in {Undef, received}
    /\ fired = {}
    /\ Returned =>
         /\ outcome.kind = "element"
         /\ outcome.data = Get(received, kData)
         /\ outcome.chart =
              (IF Get(received, kType) = Str(sBar) THEN "Bar" ELSE "Line")

\* C6 witness: a canonical bar chart of two series was handed to Bar
C6_Witness ==
  /\ Returned
  /\ IsCanonical(received)
  /\ Len(Get(Get(received, kData), kDatasets).v) >= 2
  /\ Len(Get(Get(received, kData), kLabels).v) >= 1
  /\ outcome.chart = "Bar"

\* the adaptation rules have all run
Normalized == pc \in {"validate", "render", "done"}

\* data is { labels: x, datasets: [one series named name with values y] }
OneSeriesOf(data, x, y, name) ==
  /\ Get(data, kLabels) = x
  /\ IsArray(Get(data, kDatasets))
  /\ Len(Get(data, kDatasets).v) = 1
  /\ Get(Get(data, kDatasets).v[1], kData) = y
  /\ Get(Get(data, kDatasets).v[1], kLabel) = name

\* the normalized data is the axis pair of d as one series named name, and
\* the payload passes validation with it
AxisPairYields(d, name) ==
  /\ OneSeriesOf(Get(chartPayload, kData), Get(d, kX), Get(d, kY), name)
  /\ Returned => Accepted
  /\ (Returned /\ outcome.kind = "element") =>
       outcome.data = Get(chartPayload, kData)

\* C7 as stated: whenever payload.data has array-valued x and y, normalize
\* yields exactly one series with values y and labels x, named data.ylabel
\* if provided, otherwise the default label "Value".
C7_AxisPairAsStated ==
  (Normalized /\ AxisPairApplies(AtRules(received))) =>
    LET d == Get(AtRules(received), kData)
    IN AxisPairYields(d, IF Has(d, kYlabel) THEN Get(d, kYlabel)
                         ELSE Str(sValue))

\* C7 amended: whenever payload.data has array-valued x and y, normalize
\* yields exactly one series with values y and labels x, named data.ylabel
\* if that is truthy (provided and not empty), otherwise data.title if that
\* is truthy, otherwise the default label "Value".
C7_AxisPairAdaptation ==
  (Normalized /\ AxisPairApplies(AtRules(received))) =>
    LET d == Get(AtRules(received), kData)
    IN AxisPairYields(d, IF Truthy(Get(d, kYlabel)) THEN Get(d, kYlabel)
                         ELSE IF Truthy(Get(d, kTitle)) THEN Get(d, kTitle)
                         ELSE Str(sValue))

\* C7 witness: {data: {x: [0,1,2], y: [10,20,30], ylabel: "Price"}} was
\* rendered as one series "Price" with values [10,20,30] and labels [0,1,2]
C7_Witness ==
  /\ Returned
  /\ received = ExampleAxisPair
  /\ fired = {"D"}
  /\ outcome.kind = "element"
  /\ OneSeriesOf(outcome.data, Arr(<<Num(0), Num(1), Num(2)>>),
                 Arr(<<Num(10), Num(20), Num(30)>>), Str(sPrice))

\* a top-level datasets collection, no data member, and top-level labels
\* that are a label sequence when present
MissingWrapper(p) ==
  /\ p.t = "object"
  /\ IsArray(Get(p, kDatasets))
  /\ ~Has(p, kData)
  /\ Has(p, kLabels) => IsArray(Get(p, kLabels))

\* C8: whenever a payload has a top-level datasets collection and no data
\* container, normalize produces data = {labels: the top-level labels if
\* present, otherwise the empty sequence; datasets: the top-level datasets,
\* unchanged and in the same order}.
C8_MissingWrapperAdaptation ==
  (Normalized /\ MissingWrapper(AtRules(received))) =>
    LET p == AtRules(received)
    IN /\ Get(chartPayload, kData) =
            Obj(<<Entry(kLabels, IF Has(p, kLabels) THEN Get(p, kLabels)
                                 ELSE Arr(<<>>)),
                  Entry(kDatasets, Get(p, kDatasets))>>)
       /\ Returned => Accepted

\* C8 witness: top-level labels and two top-level series were rendered
C8_Witness ==
  /\ Returned
  /\ MissingWrapper(AtRules(received))
  /\ Has(AtRules(received), kLabels)
  /\ Len(Get(AtRules(received), kDatasets).v) >= 2
  /\ "A" \in fired
  /\ outcome.kind = "element"
  /\ Get(outcome.data, kLabels) = Get(received, kLabels)

\* a series object or an array under the singular key of data, and no
\* data.datasets
NestedSingular(p) ==
  /\ Get(p, kData).t = "object"
  /\ Get(Get(p, kData), kDataset).t \in {"object", "array"}
  /\ ~Has(Get(p, kData), kDatasets)

\* a series object or an array under the singular key of the payload root,
\* and no data container
RootSingular(p) ==
  /\ p.t = "object"
  /\ Get(p, kDataset).t \in {"object", "array"}
  /\ ~Has(p, kData)

\* the normalized datasets: the one series, or the array as it is
SingularYields(dataset) ==
  /\ Get(Get(chartPayload, kData), kDatasets) =
       (IF IsArray(dataset) THEN dataset ELSE Arr(<<dataset>>))
  /\ Returned => Accepted

\* C9 as stated: a single series under dataset, nested under data (with no
\* data.datasets) or at the payload root (with no data container), becomes
\* a datasets collection of exactly that series; a dataset that is an
\* array is used as the collection as it is.
C9_SingularAsStated ==
  LET p == AtRules(received)
  IN /\ (Normalized /\ NestedSingular(p)) =>
          SingularYields(Get(Get(p, kData), kDataset))
     /\ (Normalized /\ RootSingular(p)) => SingularYields(Get(p, kDataset))

\* C9 amended: the same, provided that in the nested case data has no
\* array-valued x and y pair (the axis-pair rule replaces data first) and
\* in the root case the payload has no top-level datasets (the
\* missing-wrapper rule builds data from them first).
C9_SingularAdaptation ==
  LET p == AtRules(received)
  IN /\ (Normalized /\ NestedSingular(p) /\ ~AxisPairApplies(p)) =>
          SingularYields(Get(Get(p, kData), kDataset))
     /\ (Normalized /\ RootSingular(p) /\ ~Has(p, kDatasets)) =>
          SingularYields(Get(p, kDataset))

\* C9 witness: a series object at the payload root was rendered as the
\* only series
C9_Witness ==
  /\ Returned
  /\ RootSingular(AtRules(received))
  /\ ~Has(AtRules(received), kDatasets)
  /\ Get(AtRules(received), kDataset).t = "object"
  /\ fired = {"C"}
  /\ outcome.kind = "element"
  /\ Get(outcome.data, kDatasets) = Arr(<<Get(AtRules(received), kDataset)>>)

\* C10: for every payload that passes validation the chart kind is bar iff
\* the payload's type is "bar" in any letter case and line in every other
\* case (type missing, not a string, not a known kind); the kind never
\* makes the rendering fail.
C10_KindDefaultsToLine ==
  Accepted =>
    /\ outcome.kind = "element"
    /\ outcome.chart =
         (LET type == Get(chartPayload, kType)
          IN IF type.t = "string" /\ toLowerCase(type.v) = sBar
             THEN "Bar" ELSE "Line")

(***************************************************************************)
(* How the adaptation rules combine, and what a failed call shows.         *)
(***************************************************************************)
\* the call reaches the adaptation rules of lines 170-211
ReachesRules(raw) == Truthy(raw) /\ CanRead(Decoded(raw))

\* lines 173-211 as one function: the payload after each rule had its turn
AfterCasoD(p) == IF AxisPairApplies(p) THEN AxisPairAdapt(p) ELSE p
AfterCasoA(p) == IF MissingWrapperApplies(p) THEN MissingWrapperAdapt(p) ELSE p
AfterCasoB(p) == IF SingularApplies(p) THEN SingularAdapt(p) ELSE p

\* the rules that fire in one call of renderChart(raw)
RulesFired(raw) ==
  IF ~ReachesRules(raw) THEN {}
  ELSE LET p0 == AtRules(raw)
           p1 == AfterCasoD(p0)
           p2 == AfterCasoA(p1)
           p3 == AfterCasoB(p2)
       IN {r \in {"D"} : AxisPairApplies(p0)}
            \cup {r \in {"A"} : MissingWrapperApplies(p1)}
            \cup {r \in {"B"} : SingularApplies(p2)}
            \cup {r \in {"C"} : RootSingularApplies(p3)}

\* the signatures of the four rules on the payload as the rules first see it
Signatures(p) ==
  {r \in {"D"} : IsArray(Get(Get(p, kData), kX)) /\ IsArray(Get(Get(p, kData), kY))}
    \cup {r \in {"A"} : Truthy(Get(p, kDatasets))}
    \cup {r \in {"B"} : Truthy(Get(Get(p, kData), kDataset))}
    \cup {r \in {"C"} : Truthy(Get(p, kDataset))}

\* C11 as stated: the adaptation rules are not mutually exclusive, some
\* payload makes more than one of the four rules (axis-pair, missing-wrapper,
\* singular/plural, root-level singular) fire within a single call.
C11_SomePayloadFiresTwoRules ==
  \E raw \in RawPayloads \cup {received} : Cardinality(RulesFired(raw)) >= 2

\* C11, corrected: the four rules exclude each other.  In every call of
\* renderChart, first or repeated, at most one adaptation rule fires, also
\* for a payload that carries the signature of several rules; the rules that
\* fired are those of the sequential tests of lines 173-211.
C11_AtMostOneRuleFires ==
  /\ Cardinality(fired) <= 1
  /\ Normalized => fired = RulesFired(received)

\* a call has finished on a payload with the signatures of two rules (a
\* top-level datasets and a top-level dataset) and only Caso A has fired
C11_Witness ==
  /\ Returned
  /\ received.t = "object"
  /\ Cardinality(Signatures(received)) >= 2
  /\ fired = {"A"}

\* C12: whenever the call reports a failure (the structure-mismatch block),
\* the diagnostic holds the original raw payload exactly as received: the
\* DEBUG DATA text is the serialization of the payload as the API delivered
\* it and reads back as that payload, no rule has fired, and the raw value
\* is still the delivered one.  Every rule that mutates the payload leads to
\* validation success, in the call that mutates and in every later call.
C12_FailureShowsOriginalPayload ==
  /\ (Returned /\ outcome.kind = "mismatch") =>
       /\ fired = {}
       /\ rawPayload = delivered
       /\ received = delivered
       /\ outcome.debug = JSONstringifyPretty(delivered)
       /\ JSONparse(outcome.debug).ok
       /\ JSONparse(outcome.debug).val = delivered
  /\ (Returned /\ fired # {}) => Accepted
  /\ rawPayload # delivered => outcome.kind \notin {"mismatch", "null"}

\* a call has failed validation on a payload that was unwrapped from its
\* chart_data envelope and whose data container the rules looked into
C12_Witness ==
  /\ Returned
  /\ outcome.kind = "mismatch"
  /\ alias = "raw.chart_data"
  /\ Truthy(Get(chartPayload, kData))
  /\ Len(outcome.debug) > 2

(***************************************************************************)
(* Part 2: the day-ahead price map, components/dashboard/EuropePriceMap.tsx.*)
(* The hourly series is a JavaScript array of { hour, prices } objects as  *)
(* res.json() delivers it; a price is a number or null.  Prices are        *)
(* integers here.                                                          *)
(***************************************************************************)
kHour == <<"h","o","u","r">>
kPrices == <<"p","r","i","c","e","s">>
zDE == <<"D","E">>
zFR == <<"F","R">>
zPL == <<"P","L">>

\* Object.values(o): the values in insertion order
ObjectValues(o) == [i \in 1..Len(o.v) |-> o.v[i].val]

\* line 116 and 161: p !== null
NotNull(p) == p.t # "null"

\* lines 115-117 looking for a snapshot instead of a price
hasValidPrices_AnySnapshot(hours) == Len(hours.v) > 0

\* lines 115-117: data.hours.some(h => Object.values(h.prices).some(p => p !== null))
hasValidPrices(hours) ==
  \E i \in 1..Len(hours.v) :
    LET values == ObjectValues(Get(hours.v[i], kPrices))
    IN \E j \in 1..Len(values) : NotNull(values[j])

\* line 161 without the test p >= 0
KeepPrice_AnySign(p) == NotNull(p)

\* line 161: the prices that enter the colour scale
KeepPrice(p) == NotNull(p) /\ p.v >= 0

RECURSIVE PricesFrom(_, _)
\* lines 160-166 for the snapshots from the i-th on: the kept prices as
\* numbers, in the order they are visited
PricesFrom(snapshots, i) ==
  IF i > Len(snapshots) THEN <<>>
  ELSE LET kept == SelectSeq(ObjectValues(Get(snapshots[i], kPrices)), KeepPrice)
       IN [j \in 1..Len(kept) |-> kept[j].v] \o PricesFrom(snapshots, i + 1)

\* line 159: apiHours.forEach visits every snapshot of the day
Visited(hours) == hours.v

\* lines 157-167
allPrices(hours) == PricesFrom(Visited(hours), 1)

RECURSIVE InsertSorted(_, _)
\* x put into the ascending sequence s, after the elements equal to it
InsertSorted(s, x) ==
  IF s = <<>> THEN <<x>>
  ELSE IF x - s[Len(s)] >= 0 THEN Append(s, x)
  ELSE Append(InsertSorted(SubSeq(s, 1, Len(s) - 1), x), s[Len(s)])

RECURSIVE SortAscending(_)
\* line 172: allPrices.sort((a, b) => a - b), a stable ascending sort
SortAscending(s) ==
  IF s = <<>> THEN <<>>
  ELSE InsertSorted(SortAscending(SubSeq(s, 1, Len(s) - 1)), s[Len(s)])

\* line 177 rounding up instead of down
p95Index_Ceil(n) == (n * 95 + 99) \div 100

\* line 176 rounding up instead of down
p5Index_Ceil(n) == (n * 5 + 99) \div 100

\* line 176: Math.floor(n * 0.05).  The floor of the double product equals
\* the integer quotient for every length below 200000.
p5Index(n) == (n * 5) \div 100

\* line 177: Math.floor(n * 0.95), likewise
p95Index(n) == (n * 95) \div 100

\* lines 154 and 169: { minPrice: 0, maxPrice: 100 }
FallbackRange == [minPrice |-> Num(0), maxPrice |-> Num(100)]

\* s[i] of a JavaScript array of numbers: undefined outside 0..length-1
ElementAt(s, i) == IF i + 1 \in 1..Len(s) THEN Num(s[i + 1]) ELSE Undef

\* lines 172-182: the values at the two percentile positions (JavaScript
\* indices count from 0)
RobustRange(prices) ==
  LET sorted == SortAscending(prices)
  IN [minPrice |-> ElementAt(sorted, p5Index(Len(prices))),
      maxPrice |-> ElementAt(sorted, p95Index(Len(prices)))]

\* lines 153-183, the function useMemo caches on [apiHours, hasData]
PriceRange(hours, has) ==
  IF ~Truthy(hours) \/ ~has THEN FallbackRange
  ELSE IF Len(allPrices(hours)) = 0 THEN FallbackRange
  ELSE RobustRange(allPrices(hours))

UpperChar(c) ==
  LET hit == {i \in 1..Len(Lower) : Lower[i] = c}
  IN IF hit = {} THEN c ELSE Upper[CHOOSE i \in hit : TRUE]

\* String.prototype.toUpperCase
toUpperCase(s) == [i \in 1..Len(s) |-> UpperChar(s[i])]

\* lines 22-30: the static table from zone code to region (ISO3)
ZONE_TO_ISO3 ==
  Obj(<<Entry(<<"C","H">>, Str(<<"C","H","E">>)),
        Entry(<<"D","E">>, Str(<<"D","E","U">>)),
        Entry(<<"F","R">>, Str(<<"F","R","A">>)),
        Entry(<<"A","T">>, Str(<<"A","U","T">>)),
        Entry(<<"I","T">>, Str(<<"I","T","A">>)),
        Entry(<<"E","S">>, Str(<<"E","S","P">>)),
        Entry(<<"N","L">>, Str(<<"N","L","D">>)),
        Entry(<<"B","E">>, Str(<<"B","E","L">>)),
        Entry(<<"P","L">>, Str(<<"P","O","L">>)),
        Entry(<<"F","I">>, Str(<<"F","I","N">>)),
        Entry(<<"P","T">>, Str(<<"P","R","T">>)),
        Entry(<<"U","K">>, Str(<<"G","B","R">>)),
        Entry(<<"G","B">>, Str(<<"G","B","R">>)),
        Entry(<<"N","O","2">>, Str(<<"N","O","R">>)),
        Entry(<<"N","O">>, Str(<<"N","O","R">>)),
        Entry(<<"S","E","3">>, Str(<<"S","W","E">>)),
        Entry(<<"S","E">>, Str(<<"S","W","E">>)),
        Entry(<<"D","K","1">>, Str(<<"D","N","K">>)),
        Entry(<<"D","K">>, Str(<<"D","N","K">>))>>)

\* line 192 reading the table with the zone code as it was sent
ZoneResolver_CaseSensitive(zoneCode) == Get(ZONE_TO_ISO3, zoneCode)

\* line 192: ZONE_TO_ISO3[zoneCode.toUpperCase()], undefined for a code the
\* table does not have
ZoneResolver(zoneCode) == Get(ZONE_TO_ISO3, toUpperCase(zoneCode))

\* line 187: apiHours?.find(h => h.hour === selectedHour), the first
\* snapshot of that hour; undefined without a series or without a match
hourObj(hours, hour) ==
  IF hours.t # "array" THEN Undef
  ELSE LET hit == {i \in 1..Len(hours.v) : Get(hours.v[i], kHour) = Num(hour)}
       IN IF hit = {} THEN Undef
          ELSE hours.v[CHOOSE i \in hit : \A j \in hit : i <= j]

\* line 193 storing a price only for a region the map does not have yet
MapSet_FirstWins(map, iso3, val) ==
  IF Has(map, iso3.v) THEN map ELSE Put(map, iso3.v, val)

\* line 193: map.set(iso3, val); a Map keeps its keys in insertion order
\* and a key that is set again keeps its place
MapSet(map, iso3, val) == Put(map, iso3.v, val)

RECURSIVE EntriesInto(_, _, _)
\* lines 190-194: the loop over Object.entries(hourObj.prices), from the
\* i-th entry on
EntriesInto(map, entries, i) ==
  IF i > Len(entries) THEN map
  ELSE LET zoneCode == entries[i].k
           val == entries[i].val
           iso3 == ZoneResolver(zoneCode)
       IN IF ~NotNull(val) THEN EntriesInto(map, entries, i + 1)
          ELSE IF Truthy(iso3)
               THEN EntriesInto(MapSet(map, iso3, val), entries, i + 1)
               ELSE EntriesInto(map, entries, i + 1)

\* lines 185-196, the function useMemo caches on [apiHours, selectedHour]
PriceMapOf(hours, hour) ==
  LET shown == hourObj(hours, hour)
  IN IF ~Truthy(shown) THEN Obj(<<>>)
     ELSE EntriesInto(Obj(<<>>), Get(shown, kPrices).v, 1)

(***************************************************************************)
(* calculateDynamicColor, lines 48-63.  JavaScript numbers are exact       *)
(* fractions num/den here; a division by zero gives den = 0 (NaN or an     *)
(* infinity).  A colour is the CSS text the function returns, kept by its  *)
(* parts: the hex text, or hue, saturation and lightness of hsl(...).      *)
(***************************************************************************)
Abs(n) == IF n < 0 THEN 0 - n ELSE n

RECURSIVE GCD(_, _)
GCD(a, b) == IF b = 0 THEN a ELSE GCD(b, a % b)

\* a / b
Divide(a, b) ==
  IF b = 0 THEN [num |-> IF a = 0 THEN 0 ELSE IF a > 0 THEN 1 ELSE 0 - 1,
                 den |-> 0]
  ELSE LET g == GCD(Abs(a), Abs(b))
           sign == IF b < 0 THEN 0 - 1 ELSE 1
       IN [num |-> sign * (a \div g), den |-> sign * (b \div g)]

\* an integer as a number
Whole(n) == [num |-> n, den |-> 1]

\* x * y and x - y; anything computed from NaN is NaN
Times(x, y) ==
  IF x.den = 0 \/ y.den = 0
  THEN [num |-> IF x.num = 0 \/ y.num = 0 THEN 0 ELSE x.num * y.num, den |-> 0]
  ELSE Divide(x.num * y.num, x.den * y.den)

Minus(x, y) ==
  IF x.den = 0 \/ y.den = 0
  THEN [num |-> IF x.den = 0 /\ y.den = 0 THEN 0
                ELSE IF x.den = 0 THEN x.num ELSE 0 - y.num,
        den |-> 0]
  ELSE Divide(x.num * y.den - y.num * x.den, x.den * y.den)

IsNumber(x) == x.den # 0

\* x <= y for numbers
AtMost(x, y) == x.num * y.den <= y.num * x.den

MathMax(a, b) == IF a >= b THEN a ELSE b
MathMin(a, b) == IF a <= b THEN a ELSE b

Hex(text) == [css |-> "hex", hex |-> text, hue |-> Whole(0), s |-> 0, l |-> 0]
Hsl(hue, s, l) == [css |-> "hsl", hex |-> "", hue |-> hue, s |-> s, l |-> l]

\* line 52: '#3b82f6'
NegativeColor == Hex("#3b82f6")

\* line 54: 'hsl(80, 85%, 50%)'
NeutralColor == Hsl(Whole(80), 85, 50)

\* line 54 with the test always false
IsDegenerate_Never(lo, hi) == FALSE

\* line 54: max === min
IsDegenerate(lo, hi) == hi = lo

\* line 57 without the outer Math.min
safePrice_Unbounded(p, lo, hi) == MathMax(p, lo)

\* line 57: Math.min(Math.max(price, min), max)
safePrice(p, lo, hi) == MathMin(MathMax(p, lo), hi)

\* line 59: (safePrice - min) / (max - min)
ratio(p, lo, hi) == Divide(safePrice(p, lo, hi) - lo, hi - lo)

\* line 62 with the scale reversed
hue_Reversed(p, lo, hi) == Times(ratio(p, lo, hi), Whole(140))

\* line 62: 140 - (ratio * 140)
hue(p, lo, hi) == Minus(Whole(140), Times(ratio(p, lo, hi), Whole(140)))

\* line 52 with the test after the degenerate one
calculateDynamicColor_DegenerateFirst(p, lo, hi) ==
  IF IsDegenerate(lo, hi) THEN NeutralColor
  ELSE IF p < 0 THEN NegativeColor
  ELSE Hsl(hue(p, lo, hi), 80, 45)

\* lines 50-62
calculateDynamicColor(p, lo, hi) ==
  IF p < 0 THEN NegativeColor
  ELSE IF IsDegenerate(lo, hi) THEN NeutralColor
  ELSE Hsl(hue(p, lo, hi), 80, 45)

(***************************************************************************)
(* The hourly series the prices API may answer with.                       *)
(***************************************************************************)
\* the zone codes of a generated snapshot, in the order they are sent
Zones == <<zDE, zFR, zPL>>

\* { hour: h, prices: { DE: ps[1], FR: ps[2], ... } }
Snapshot(h, ps) ==
  Obj(<<Entry(kHour, Num(h)),
        Entry(kPrices, Obj([j \in 1..Len(ps) |-> Entry(Zones[j], ps[j])]))>>)

\* n prices, generated by f, sent as snapshots of perHour zones each for
\* the hours 0, 1, 2, ...
SeriesOf(f(_), n, perHour) ==
  Arr([k \in 1..((n + perHour - 1) \div perHour) |->
         Snapshot(k - 1,
                  [j \in 1..MathMin(perHour, n - (k - 1) * perHour) |->
                     f((k - 1) * perHour + j)])])

Rising(i) == Num(i)
Falling(i) == Num(200 - i)
Constant(i) == Num(50)
Spiked(i) == IF i = 2 THEN Num(500) ELSE Num(40 + (i % 3))
Scattered(i) ==
  IF i % 5 = 0 THEN Null
  ELSE IF i % 7 = 3 THEN Num(0 - i)
  ELSE Num((i * 7) % 11)
AllAbsent(i) == Null
AllNegative(i) == Num(0 - i)
AbsentOrNegative(i) == IF i % 2 = 0 THEN Null ELSE Num(0 - 3)

PriceCounts == {1, 2, 3, 19, 20, 21, MaxPrices}

\* the generated series of the first and of the second day
GeneratedFirstDay ==
  UNION {{SeriesOf(Rising, n, 2), SeriesOf(Constant, n, 2),
          SeriesOf(Scattered, n, 2), SeriesOf(Scattered, n, 3)} :
         n \in PriceCounts}
    \cup {SeriesOf(AllAbsent, n, 2) : n \in {0, 1, 3}}

GeneratedSecondDay ==
  UNION {{SeriesOf(Falling, n, 2), SeriesOf(Spiked, n, 2)} :
         n \in PriceCounts}
    \cup {SeriesOf(AllNegative, n, 2) : n \in {1, 3}}
    \cup {SeriesOf(AbsentOrNegative, n, 2) : n \in {2, 5}}

GeneratedSeries == GeneratedFirstDay \cup GeneratedSecondDay

\* [{ hour: 12, prices: { DE: 50, FR: -5, PL: 500 } }]
ExampleSeries == Arr(<<Snapshot(12, <<Num(50), Num(0 - 5), Num(500)>>)>>)

\* two hours with different prices, and an hour without prices
TwoHours ==
  Arr(<<Snapshot(12, <<Num(30), Num(60)>>), Snapshot(13, <<Num(90), Null>>),
        Snapshot(23, <<>>)>>)

\* zone codes as a backend may send them: in lower or mixed case, two codes
\* of one region, a code the table does not have
zuk == <<"u","k">>
zGB == <<"G","B">>
zde == <<"d","e">>
zfr == <<"f","r">>
zXX == <<"X","X">>
zNO2 == <<"N","O","2">>
zNO == <<"N","O">>
zdK1 == <<"d","K","1">>

\* { hour: h, prices: { [zones[1]]: ps[1], ... } }
SnapshotOf(h, zones, ps) ==
  Obj(<<Entry(kHour, Num(h)),
        Entry(kPrices, Obj([j \in 1..Len(ps) |-> Entry(zones[j], ps[j])]))>>)

AliasedZones ==
  Arr(<<SnapshotOf(12, <<zuk, zGB, zde, zXX, zNO2, zNO, zfr>>,
                   <<Num(10), Num(20), Num(30), Num(40), Num(7), Null, Null>>),
        SnapshotOf(13, <<zGB, zuk, zNO, zNO2, zdK1>>,
                   <<Num(20), Num(10), Null, Num(7), Num(15)>>)>>)

\* two snapshots of the same hour
RepeatedHour ==
  Arr(<<Snapshot(12, <<Null, Null>>), Snapshot(12, <<Num(30), Num(60)>>)>>)

HourlySeries ==
  GeneratedSeries \cup {ExampleSeries, TwoHours, AliasedZones, RepeatedHour}

\* the dates the dashboard's date picker hands to the map
Dates == {"2026-01-19", "2026-01-20"}

\* line 105: the series the API may answer with for a date (the date is
\* part of the URL).  Different days have different series.
PricesOn(d) ==
  IF d = "2026-01-19"
  THEN GeneratedFirstDay \cup {ExampleSeries, AliasedZones}
  ELSE GeneratedSecondDay \cup {TwoHours, RepeatedHour}

\* the positions the hour slider is moved to (it offers 0..23, line 335-342)
SliderHours == {0, 12, 13, 23}

(***************************************************************************)
(* The EuropePriceMap component as a state machine.  State updates of one  *)
(* event handler or promise continuation are applied together (React       *)
(* batches them into one render).                                          *)
(***************************************************************************)
\* a load() call in flight; aborted: controller.abort() was called on it
Request(d, aborted) == [date |-> d, aborted |-> aborted]

Without(rs, i) == SubSeq(rs, 1, i - 1) \o SubSeq(rs, i + 1, Len(rs))

\* the render after a change of apiHours or hasData: useMemo runs its
\* function again (dependencies of line 183) and keeps the result
Recomputed(hours, has) ==
  LET range == PriceRange(hours, has)
  IN /\ minPrice' = range.minPrice
     /\ maxPrice' = range.maxPrice

\* line 131 leaving the fetch of the previous effect running
AbortAll_None(rs) == rs

\* line 131, the effect's cleanup: the load of the previous effect, if it
\* has not settled, is aborted (earlier ones already are)
AbortAll(rs) == [i \in 1..Len(rs) |-> Request(rs[i].date, TRUE)]

\* an aborted fetch has rejected and the continuation of its load() (the
\* catch of line 122) is queued as a microtask: it runs before the next
\* event, timer or network response
Settling == \E i \in 1..Len(requests) : requests[i].aborted

\* the parent passes another date: the effect of lines 94-132 is cleaned up
\* and runs again; load() runs up to its first await (lines 99-105)
ChangeDate(d) ==
  /\ ~Settling
  /\ d # date
  /\ Len(requests) < MaxRequests
  /\ date' = d
  /\ requests' = Append(AbortAll(requests), Request(d, FALSE))
  /\ isLoading' = TRUE
  /\ hasData' = FALSE
  /\ Recomputed(apiHours, FALSE)
  /\ UNCHANGED <<apiHours, selectedHour>>
  /\ UNCHANGED <<chartVars, colorVars, panelVars>>

\* lines 105-120 and 126: the fetch of request i answers with a series
LoadSucceeds(i, hours) ==
  /\ ~Settling
  /\ ~requests[i].aborted
  /\ hasData' = hasValidPrices(hours)
  /\ apiHours' = hours
  /\ isLoading' = FALSE
  /\ Recomputed(hours, hasValidPrices(hours))
  /\ requests' = Without(requests, i)
  /\ UNCHANGED <<date, selectedHour>>
  /\ UNCHANGED <<chartVars, colorVars, panelVars>>

\* lines 109, 122-126: the fetch of request i fails (network error, a
\* status that is not ok, a body that is not the expected JSON)
LoadFails(i) ==
  /\ ~Settling
  /\ ~requests[i].aborted
  /\ apiHours' = Null
  /\ isLoading' = FALSE
  /\ Recomputed(Null, hasData)
  /\ requests' = Without(requests, i)
  /\ UNCHANGED <<date, hasData, selectedHour>>
  /\ UNCHANGED <<chartVars, colorVars, panelVars>>

\* lines 122-126: the aborted fetch of request i rejects with an AbortError
LoadAborted(i) ==
  /\ requests[i].aborted
  /\ apiHours' = Null
  /\ isLoading' = FALSE
  /\ Recomputed(Null, hasData)
  /\ requests' = Without(requests, i)
  /\ UNCHANGED <<date, hasData, selectedHour>>
  /\ UNCHANGED <<chartVars, colorVars, panelVars>>

\* lines 335-342 with a range that is taken over the snapshots of the
\* selected hour and follows the slider
SetSelectedHour_RangeOfHour(h) ==
  /\ ~Settling
  /\ hasData
  /\ h # selectedHour
  /\ selectedHour' = h
  /\ LET shown == Arr(SelectSeq(apiHours.v,
                                LAMBDA x : Get(x, kHour) = Num(h)))
     IN Recomputed(shown, hasData)
  /\ UNCHANGED <<date, requests, apiHours, hasData, isLoading>>
  /\ UNCHANGED <<chartVars, colorVars, panelVars>>

\* lines 335-342: the slider (disabled while hasData is false) is moved.
\* apiHours and hasData are the same, so useMemo keeps the range.
SetSelectedHour(h) ==
  /\ ~Settling
  /\ hasData
  /\ h # selectedHour
  /\ selectedHour' = h
  /\ UNCHANGED <<minPrice, maxPrice>>
  /\ UNCHANGED <<date, requests, apiHours, hasData, isLoading>>
  /\ UNCHANGED <<chartVars, colorVars, panelVars>>

\* no chart is rendered
ChartUnused ==
  /\ received = Undef
  /\ rawPayload = Undef
  /\ chartPayload = Undef
  /\ alias = "raw"
  /\ pc = "unused"
  /\ fired = {}
  /\ console = <<>>
  /\ outcome = Pending
  /\ delivered = Undef

\* the component after its first render and its effects: load() has run up
\* to the fetch for the first date
InitMap ==
  /\ date \in Dates
  /\ requests = <<Request(date, FALSE)>>
  /\ apiHours = Null
  /\ hasData = FALSE
  /\ selectedHour = 12
  /\ isLoading = TRUE
  /\ minPrice = Num(0)
  /\ maxPrice = Num(100)
  /\ ChartUnused
  /\ ColorUnused
  /\ PanelsUnused

Changes == \E d \in Dates : ChangeDate(d)
Succeeds ==
  \E i \in 1..Len(requests) :
    \E hours \in PricesOn(requests[i].date) : LoadSucceeds(i, hours)
Fails == \E i \in 1..Len(requests) : LoadFails(i)
Aborts == \E i \in 1..Len(requests) : LoadAborted(i)
Slides == \E h \in SliderHours : SetSelectedHour(h)

NextMap ==
  \/ Changes
  \/ Succeeds
  \/ Fails
  \/ Aborts
  \/ Slides

SpecMap == InitMap /\ [][NextMap]_vars

(***************************************************************************)
(* Properties of the colour range.                                         *)
(***************************************************************************)
\* a series is loaded
Loaded == apiHours.t = "array"

\* the prices of the loaded series that the range is taken from
Collected == IF Loaded THEN allPrices(apiHours) ELSE <<>>

Least(ps) == CHOOSE x \in {ps[i] : i \in 1..Len(ps)} : \A i \in 1..Len(ps) : x <= ps[i]
Greatest(ps) == CHOOSE x \in {ps[i] : i \in 1..Len(ps)} : \A i \in 1..Len(ps) : x >= ps[i]

\* x is the value at position k (from 0) of ps in ascending order
IsAtRank(ps, k, x) ==
  /\ Cardinality({i \in 1..Len(ps) : ps[i] < x}) <= k
  /\ Cardinality({i \in 1..Len(ps) : ps[i] <= x}) > k

\* C13: for every non-empty collection of non-negative prices, the two
\* indices floor(n*0.05) and floor(n*0.95) lie within [0, n-1], the range
\* holds the values at these positions of the ascending order, low <= high,
\* and both lie within [min(values), max(values)].
C13_RobustRangeWithinBounds ==
  LET ps == Collected
      n == Len(ps)
      r == RobustRange(ps)
  IN n > 0 =>
       /\ \A i \in 1..n : ps[i] >= 0
       /\ p5Index(n) \in 0..(n - 1)
       /\ p95Index(n) \in 0..(n - 1)
       /\ p5Index(n) * 100 <= n * 5 /\ n * 5 < (p5Index(n) + 1) * 100
       /\ p95Index(n) * 100 <= n * 95 /\ n * 95 < (p95Index(n) + 1) * 100
       /\ r.minPrice.t = "number" /\ r.maxPrice.t = "number"
       /\ IsAtRank(ps, p5Index(n), r.minPrice.v)
       /\ IsAtRank(ps, p95Index(n), r.maxPrice.v)
       /\ r.minPrice.v <= r.maxPrice.v
       /\ Least(ps) <= r.minPrice.v
       /\ r.maxPrice.v <= Greatest(ps)

\* a series of more than twenty prices, not sent in ascending order, is
\* loaded: both percentile positions are strictly inside the collection and
\* the range is narrower than [min, max] at its upper end
C13_Witness ==
  /\ Loaded
  /\ hasData
  /\ Len(Collected) > 20
  /\ Collected # SortAscending(Collected)
  /\ p5Index(Len(Collected)) >= 1
  /\ p95Index(Len(Collected)) < Len(Collected) - 1
  /\ minPrice.v < maxPrice.v
  /\ maxPrice.v < Greatest(Collected)
  /\ [minPrice |-> minPrice, maxPrice |-> maxPrice] = RobustRange(Collected)

\* the prices of the loaded series, absent ones included, as a set of
\* <<snapshot, zone position, price>>
Sent ==
  IF ~Loaded THEN {}
  ELSE UNION {{<<i, j, ObjectValues(Get(apiHours.v[i], kPrices))[j]>> :
                 j \in 1..Len(Get(apiHours.v[i], kPrices).v)} :
              i \in 1..Len(apiHours.v)}

\* the values of the non-absent, non-negative prices of the loaded series
Usable == {e[3].v : e \in {x \in Sent : x[3].t = "number" /\ x[3].v >= 0}}

\* the series without its absent and its negative prices
Stripped(hours) ==
  Arr([i \in 1..Len(hours.v) |->
         Put(hours.v[i], kPrices,
             Obj(SelectSeq(Get(hours.v[i], kPrices).v,
                           LAMBDA e : e.val.t = "number" /\ e.val.v >= 0)))])

\* C14: the range is computed only from the non-absent, non-negative
\* prices of the series: both ends are such prices and the absent and the
\* negative prices have no influence on it.  Whenever there is no such price
\* (no series loaded, hasData false, every price absent or negative) the
\* range is the fallback {0, 100}.
C14_RangeFromNonNegativePricesOnly ==
  /\ (~Loaded \/ ~hasData \/ Usable = {}) =>
       (minPrice = Num(0) /\ maxPrice = Num(100))
  /\ (Loaded /\ hasData /\ Usable # {}) =>
       /\ minPrice.t = "number" /\ minPrice.v \in Usable
       /\ maxPrice.t = "number" /\ maxPrice.v \in Usable
       /\ PriceRange(apiHours, hasData) = PriceRange(Stripped(apiHours), hasData)

\* a series that has prices, all of them negative or absent, is loaded and
\* hasData is true: the range is the fallback
C14_Witness ==
  /\ Loaded
  /\ hasData
  /\ \E e \in Sent : e[3].t = "number" /\ e[3].v < 0
  /\ \E e \in Sent : e[3].t = "null"
  /\ Usable = {}
  /\ minPrice = Num(0)
  /\ maxPrice = Num(100)

\* C15 as stated: for the series [{hour:12, prices:{DE:50, FR:-5, PL:500}}]
\* the range is {50, 50} (FR and PL both excluded), the colour for price 50
\* is the neutral degenerate hue and the colour for -5 is the fixed negative
\* colour.
C15_ExampleAsStated ==
  (Loaded /\ hasData /\ apiHours = ExampleSeries) =>
    /\ minPrice = Num(50)
    /\ maxPrice = Num(50)
    /\ calculateDynamicColor(50, minPrice.v, maxPrice.v) = NeutralColor
    /\ calculateDynamicColor(0 - 5, minPrice.v, maxPrice.v) = NegativeColor

\* C15, corrected: for that series only FR is excluded; the range is taken
\* over [50, 500] at positions 0 and 1 and is {50, 500}, the colour for 50
\* is the cheap end of the scale, hsl(140, 80%, 45%), the colour for 500 is
\* the expensive end, hsl(0, 80%, 45%), and the colour for -5 is the fixed
\* negative colour.
C15_ExampleEndToEnd ==
  (Loaded /\ hasData /\ apiHours = ExampleSeries) =>
    /\ Collected = <<50, 500>>
    /\ minPrice = Num(50)
    /\ maxPrice = Num(500)
    /\ calculateDynamicColor(50, minPrice.v, maxPrice.v)
         = Hsl(Whole(140), 80, 45)
    /\ calculateDynamicColor(500, minPrice.v, maxPrice.v)
         = Hsl(Whole(0), 80, 45)
    /\ calculateDynamicColor(0 - 5, minPrice.v, maxPrice.v) = NegativeColor

\* the example series has been loaded and hour 12 is shown
C15_Witness ==
  /\ Loaded
  /\ hasData
  /\ apiHours = ExampleSeries
  /\ selectedHour = 12
  /\ ~isLoading

\* some prices a zone can have, below, inside and above the ranges of the
\* generated series
SamplePrices == {0 - 5, 0, 3, 30, 45, 60, 90, 500}

\* the range of the whole day, as lines 153-183 take it from the state
DayRange == PriceRange(apiHours, hasData)

\* C16: the colour range depends on the whole day's series and not on the
\* selected hour: a step that changes selectedHour and leaves the loaded
\* series alone leaves minPrice and maxPrice unchanged, at the range of the
\* whole day, so a given price has the same colour before and after.
C16_RangeIndependentOfSelectedHour ==
  [][(selectedHour' # selectedHour /\ Loaded /\ apiHours' = apiHours) =>
       /\ minPrice' = minPrice
       /\ maxPrice' = maxPrice
       /\ minPrice' = DayRange.minPrice
       /\ maxPrice' = DayRange.maxPrice
       /\ \A p \in SamplePrices :
            calculateDynamicColor(p, minPrice'.v, maxPrice'.v)
              = calculateDynamicColor(p, minPrice.v, maxPrice.v)]_vars

\* the slider was moved to hour 13 of a series whose hour 13 alone would
\* give the range {90, 90}; the range is that of the day, {30, 90}
C16_Witness ==
  /\ Loaded
  /\ hasData
  /\ apiHours = TwoHours
  /\ selectedHour = 13
  /\ allPrices(Arr(SelectSeq(apiHours.v,
                              LAMBDA x : Get(x, kHour) = Num(selectedHour))))
       = <<90>>
  /\ minPrice = Num(30)
  /\ maxPrice = Num(90)

(***************************************************************************)
(* Properties of the per-hour price map.                                   *)
(***************************************************************************)
\* line 185: the map of the current render
priceMap == PriceMapOf(apiHours, selectedHour)

\* the regions of the static table, and a code that is none of them
Regions ==
  {ZONE_TO_ISO3.v[i].val.v : i \in 1..Len(ZONE_TO_ISO3.v)} \cup {zXX}

\* the entries { zone code: price } of the snapshot shown for the selected
\* hour; none without a series or without a snapshot of that hour
ShownEntries ==
  IF Truthy(hourObj(apiHours, selectedHour))
  THEN Get(hourObj(apiHours, selectedHour), kPrices).v
  ELSE <<>>

\* zone code z names region r in the static table, letter case ignored
ResolvesTo(z, r) ==
  \E i \in 1..Len(ZONE_TO_ISO3.v) :
    /\ toLowerCase(ZONE_TO_ISO3.v[i].k) = toLowerCase(z)
    /\ ZONE_TO_ISO3.v[i].val.v = r

\* C21: the map of the render has region r exactly when the snapshot of the
\* selected hour has a zone code that resolves to r, letter case ignored,
\* with a price that is not null; it has no other key, and it is empty
\* when no snapshot has the selected hour.
C21_PriceMapHasResolvedRegions ==
  /\ \A r \in Regions :
       Has(priceMap, r) <=>
         \E i \in 1..Len(ShownEntries) :
           NotNull(ShownEntries[i].val) /\ ResolvesTo(ShownEntries[i].k, r)
  /\ Keys(priceMap) \subseteq Regions \ {zXX}
  /\ (~Truthy(hourObj(apiHours, selectedHour)) => priceMap = Obj(<<>>))

\* the snapshot with lower-case codes, an unknown code and null prices is
\* shown: DEU is in the map, FRA (null price) and XX are not
C21_Witness ==
  /\ apiHours = AliasedZones
  /\ selectedHour = 12
  /\ Has(priceMap, <<"D","E","U">>)
  /\ ~Has(priceMap, <<"F","R","A">>)
  /\ Len(priceMap.v) = 3

\* the positions of the shown snapshot's entries that give region r a price
Giving(r) ==
  {i \in 1..Len(ShownEntries) :
     NotNull(ShownEntries[i].val) /\ ResolvesTo(ShownEntries[i].k, r)}

\* C22: when several zone codes of the shown snapshot resolve to one region
\* with prices that are not null, the region has the price of the last of
\* them in the snapshot's order; a code with a null price changes nothing,
\* wherever it stands.
C22_LastAliasWins ==
  \A r \in Regions :
    Giving(r) # {} =>
      LET last == CHOOSE i \in Giving(r) : \A j \in Giving(r) : j <= i
      IN Get(priceMap, r) = ShownEntries[last].val

\* uk: 10 then GB: 20 give GBR 20; NO2: 7 then NO: null leave NOR 7
C22_Witness ==
  /\ apiHours = AliasedZones
  /\ selectedHour = 12
  /\ Cardinality(Giving(<<"G","B","R">>)) = 2
  /\ Get(priceMap, <<"G","B","R">>) = Num(20)
  /\ Get(priceMap, <<"N","O","R">>) = Num(7)

(***************************************************************************)
(* Properties of the load.                                                 *)
(***************************************************************************)
\* the (snapshot, zone) pairs of a series whose price is a number
PricedPairs(hours) ==
  {<<i, j>> \in (1..Len(hours.v)) \X (1..MaxPrices) :
     /\ j <= Len(Get(hours.v[i], kPrices).v)
     /\ Get(hours.v[i], kPrices).v[j].val.t = "number"}

\* C23: a load that succeeds sets hasData to whether some snapshot of the
\* received series, at whatever hour, has a price that is not null; the
\* flag is false for a series without snapshots or with null prices only.
\* It keeps that value until the date changes.
C23_HasDataIffSomePrice ==
  [][\A i \in 1..Len(requests) : \A hours \in HourlySeries :
       LoadSucceeds(i, hours) =>
         /\ hasData' = (PricedPairs(hours) # {})
         /\ apiHours' = hours]_vars

\* a series of snapshots with null prices only was received: hasData is
\* false although there are snapshots
C23_Witness ==
  /\ Loaded
  /\ requests = <<>>
  /\ Len(apiHours.v) = 2
  /\ PricedPairs(apiHours) = {}
  /\ ~hasData

\* the load() of the selected date has not settled
CurrentPending == \E i \in 1..Len(requests) : requests[i] = Request(date, FALSE)

\* C26: whatever the order of date changes and fetch completions, only the
\* response to the selected date is stored: a load that succeeds belongs
\* to the selected date, hasData is true only over a series of the
\* selected date, and when no fetch is pending apiHours is a series of the
\* selected date or null.
C26_LastRequestWins ==
  /\ [](requests = <<>> => (apiHours = Null \/ apiHours \in PricesOn(date)))
  /\ [](hasData => (Loaded /\ apiHours \in PricesOn(date)))
  /\ [][\A i \in 1..Len(requests) : \A hours \in HourlySeries :
          LoadSucceeds(i, hours) => requests[i].date = date]_vars

\* the date was changed while the fetch of the date before was in flight:
\* that fetch is aborted and the fetch of the new date is pending, over the
\* series of an earlier load
C26_Witness ==
  /\ Len(requests) = 2
  /\ requests[1].aborted /\ requests[1].date # date
  /\ CurrentPending
  /\ Loaded

\* C28 (as stated): isLoading is true whenever the fetch of the selected
\* date has started and has not settled; the settlement of a superseded
\* fetch does not clear it.
C28_LoadingWhileCurrentFetchPending ==
  CurrentPending => isLoading

(***************************************************************************)
(* Part 3: calculateDynamicColor as getStyleForFeature calls it (lines     *)
(* 200-214): with the price of a feature's zone and the range of the       *)
(* render, minPrice <= maxPrice, both from non-negative prices.            *)
(***************************************************************************)
\* no colour yet
Unpainted == [Hsl(Whole(0), 0, 0) EXCEPT !.css = "none"]

\* the ends of the ranges tried: small ones and the fallback's 100
RangeEnds == 0..MaxBound \cup {100}

\* the prices tried: negative, inside, at and beyond the ends of the ranges
FeaturePrices == (0 - 2)..(MaxBound + 2) \cup {50, 100, 500}

InitColor ==
  /\ price \in FeaturePrices
  /\ min \in RangeEnds
  /\ max \in RangeEnds
  /\ min <= max
  /\ fillColor = Unpainted
  /\ ChartUnused
  /\ MapUnused
  /\ PanelsUnused

\* lines 206-207: fillColor: calculateDynamicColor(price, minPrice, maxPrice)
Paint ==
  /\ fillColor = Unpainted
  /\ fillColor' = calculateDynamicColor(price, min, max)
  /\ UNCHANGED <<price, min, max>>
  /\ UNCHANGED <<chartVars, mapVars, panelVars>>

NextColor == Paint

SpecColor == InitColor /\ [][NextColor]_vars

\* calculateDynamicColor has returned
Painted == fillColor # Unpainted

(***************************************************************************)
(* Properties of the colour function.                                      *)
(***************************************************************************)
\* the colour of the cheap and of the expensive end of the scale
CheapColor == Hsl(Whole(140), 80, 45)
ExpensiveColor == Hsl(Whole(0), 80, 45)

\* C17: for every price < 0 and every range, a degenerate one (low == high)
\* and the fallback {0, 100} included, the colour is the same fixed
\* negative-price colour.
C17_NegativePriceFixedColor ==
  (Painted /\ price < 0) =>
    /\ fillColor = NegativeColor
    /\ \A lo, hi \in RangeEnds :
         calculateDynamicColor(price, lo, hi) = NegativeColor

\* a negative price was coloured with a degenerate range
C17_Witness ==
  /\ Painted
  /\ price < 0
  /\ min = max
  /\ fillColor = NegativeColor

\* C18: for every non-negative price and every degenerate range (low ==
\* high) the colour is the one fixed neutral hue, and no division by
\* (high - low) = 0 takes place: the hue is a number in every colour
\* returned, and a colour of the continuous scale is only returned when
\* high != low.
C18_DegenerateRangeNeutral ==
  Painted =>
    /\ (price >= 0 /\ min = max) => fillColor = NeutralColor
    /\ IsNumber(fillColor.hue)
    /\ fillColor \notin {NegativeColor, NeutralColor} =>
         (min # max /\ fillColor = Hsl(hue(price, min, max), 80, 45))

\* a positive price was coloured with a degenerate range
C18_Witness ==
  /\ Painted
  /\ price > 0
  /\ min = max
  /\ fillColor = NeutralColor

\* the hue of the colour of price p in the range of this call
HueOf(p) == calculateDynamicColor(p, min, max).hue

\* C19: when low != high, prices are saturated at the bounds: every
\* non-negative price <= low has the cheap endpoint hue (140), every price
\* >= high the expensive endpoint hue (0), so do low and high themselves,
\* and the hue always lies in [0, 140].
C19_SaturatedAtBounds ==
  (Painted /\ min # max /\ price >= 0) =>
    /\ price <= min => fillColor = CheapColor
    /\ price >= max => fillColor = ExpensiveColor
    /\ calculateDynamicColor(min, min, max) = CheapColor
    /\ calculateDynamicColor(max, min, max) = ExpensiveColor
    /\ IsNumber(fillColor.hue)
    /\ AtMost(Whole(0), fillColor.hue)
    /\ AtMost(fillColor.hue, Whole(140))

\* a price above the upper end of a proper range, whose lower end is not
\* zero, was coloured
C19_Witness ==
  /\ Painted
  /\ 0 < min
  /\ min < max
  /\ price > max
  /\ fillColor = ExpensiveColor

\* C20: the colour function is monotonic in price: in a range with
\* low < high, for all prices a, b with low <= a <= b <= high the hue of a
\* is at least the hue of b.
C20_HueMonotonic ==
  (Painted /\ min < max /\ min <= price /\ price <= max) =>
    /\ fillColor.hue = HueOf(price)
    /\ \A b \in FeaturePrices :
         (price <= b /\ b <= max) => AtMost(HueOf(b), fillColor.hue)
    /\ \A a \in FeaturePrices :
         (min <= a /\ a <= price) => AtMost(fillColor.hue, HueOf(a))

\* a price strictly inside a range was coloured, and a higher price of the
\* range has a strictly smaller hue that is not a whole number
C20_Witness ==
  /\ Painted
  /\ min < price
  /\ price < max
  /\ \E b \in FeaturePrices :
       /\ price < b
       /\ b < max
       /\ HueOf(b).den > 1
       /\ ~AtMost(fillColor.hue, HueOf(b))

(***************************************************************************)
(* Part 4: the highlight of the ForecastsChart component                   *)
(* (components/dashboard/ForecastsChart.tsx).  A click on a legend item or *)
(* on the Reset button is one action: the handler and the render that      *)
(* follows it.                                                             *)
(***************************************************************************)
sSpotPrice == Str(<<"S","p","o","t"," ","P","r","i","c","e">>)
sConsumption == Str(<<"C","o","n","s","u","m","p","t","i","o","n"," ","F","o","r","e","c","a","s","t">>)
sSolar == Str(<<"S","o","l","a","r"," ","P","a","n","e","l"," ","F","o","r","e","c","a","s","t">>)
sWind == Str(<<"W","i","n","d"," ","F","o","r","e","c","a","s","t">>)

\* lines 48-53: seriesConfig
seriesConfig ==
  <<[key |-> sSpotPrice, color |-> "#3b82f6"],
    [key |-> sConsumption, color |-> "#ef4444"],
    [key |-> sSolar, color |-> "#f59e0b"],
    [key |-> sWind, color |-> "#10b981"]>>

\* the dataKey of the legend items: one item per <Line>
LegendKeys == {seriesConfig[i].key : i \in 1..Len(seriesConfig)}

\* line 111: highlightedSeries === s.key
isActive(highlighted, key) == highlighted = key

\* line 112 dimming every series while a highlight is set
isDimmed_ActiveToo(highlighted, key) == highlighted # Null

\* line 112: highlightedSeries !== null && !isActive
isDimmed(highlighted, key) == highlighted # Null /\ ~isActive(highlighted, key)

\* lines 110-129: the <Line> elements rendered for a value of highlightedSeries
LinesFor(highlighted) ==
  [i \in 1..Len(seriesConfig) |->
     [dataKey |-> seriesConfig[i].key,
      stroke |-> seriesConfig[i].color,
      strokeWidth |-> IF isActive(highlighted, seriesConfig[i].key) THEN 4 ELSE 2,
      strokeOpacity |-> IF isDimmed(highlighted, seriesConfig[i].key)
                        THEN Divide(15, 100) ELSE Whole(1)]]

\* line 57 storing the clicked key whatever is highlighted
handleLegendClick_AlwaysSet(highlighted, dataKey) == dataKey

\* lines 55-58: the value handleLegendClick passes to setHighlightedSeries
handleLegendClick(highlighted, dataKey) ==
  IF highlighted = dataKey THEN Null ELSE dataKey

LegendEvent(dataKey, highlighted) == [dataKey |-> dataKey, highlighted |-> highlighted]

\* lines 55-58 and 105-108: a legend item is clicked
LegendClick(dataKey) ==
  /\ Len(legendEvents) < MaxClicks
  /\ highlightedSeries' = handleLegendClick(highlightedSeries, dataKey)
  /\ lines' = LinesFor(highlightedSeries')
  /\ legendEvents' = Append(legendEvents, LegendEvent(dataKey, highlightedSeries'))
  /\ UNCHANGED <<chartVars, mapVars, colorVars, indexVars, chatVars>>

\* lines 77-84: the Reset button, rendered while a series is highlighted
ResetZoom ==
  /\ Len(legendEvents) < MaxClicks
  /\ Truthy(highlightedSeries)
  /\ highlightedSeries' = Null
  /\ lines' = LinesFor(highlightedSeries')
  /\ legendEvents' = Append(legendEvents, LegendEvent(Null, highlightedSeries'))
  /\ UNCHANGED <<chartVars, mapVars, colorVars, indexVars, chatVars>>

\* the component after its first render (line 26)
InitForecasts ==
  /\ highlightedSeries = sSpotPrice
  /\ lines = LinesFor(highlightedSeries)
  /\ legendEvents = <<>>
  /\ ChartUnused
  /\ MapUnused
  /\ ColorUnused
  /\ IndexUnused
  /\ ChatUnused

Clicks == \E dataKey \in LegendKeys : LegendClick(dataKey)

NextForecasts ==
  \/ Clicks
  \/ ResetZoom

SpecForecasts == InitForecasts /\ [][NextForecasts]_vars

(***************************************************************************)
(* Properties of the highlight.                                            *)
(***************************************************************************)
Emphasized == {i \in 1..Len(lines) : lines[i].strokeWidth = 4}

\* C24: while a series is highlighted, its line has the heavier stroke (4)
\* and full opacity and every other line has the thin stroke (2) and
\* opacity 0.15; without a highlight every line has the thin stroke and
\* full opacity; never more than one line is emphasized.
C24_StylingFollowsHighlight ==
  /\ Len(lines) = Len(seriesConfig)
  /\ \A i \in 1..Len(lines) :
       /\ lines[i].dataKey = seriesConfig[i].key
       /\ IF highlightedSeries = Null
          THEN lines[i].strokeWidth = 2 /\ lines[i].strokeOpacity = Whole(1)
          ELSE IF lines[i].dataKey = highlightedSeries
          THEN lines[i].strokeWidth = 4 /\ lines[i].strokeOpacity = Whole(1)
          ELSE /\ lines[i].strokeWidth = 2
               /\ lines[i].strokeOpacity.num * 100 = 15 * lines[i].strokeOpacity.den
  /\ Cardinality(Emphasized) <= 1
  /\ (highlightedSeries # Null => Cardinality(Emphasized) = 1)

\* after a click on Wind Forecast its line is emphasized and Spot Price,
\* highlighted before, is dimmed
C24_Witness ==
  /\ legendEvents # <<>>
  /\ highlightedSeries = sWind
  /\ Emphasized = {4}
  /\ lines[1].strokeOpacity = Divide(15, 100)

\* the value of highlightedSeries before the k-th event
Before(k) == IF k = 1 THEN sSpotPrice ELSE legendEvents[k - 1].highlighted

\* C25: a click on the legend item of series s clears the highlight when s
\* is highlighted and highlights s otherwise; the Reset button clears it;
\* two clicks in a row on the highlighted series leave it highlighted.
C25_HighlightToggles ==
  /\ legendEvents # <<>> => highlightedSeries = legendEvents[Len(legendEvents)].highlighted
  /\ \A k \in 1..Len(legendEvents) :
       LET e == legendEvents[k]
       IN /\ e.dataKey = Null => e.highlighted = Null
          /\ (e.dataKey # Null /\ Before(k) = e.dataKey) => e.highlighted = Null
          /\ (e.dataKey # Null /\ Before(k) # e.dataKey) => e.highlighted = e.dataKey
  /\ \A k \in 2..Len(legendEvents) :
       (/\ legendEvents[k].dataKey = legendEvents[k - 1].dataKey
        /\ legendEvents[k].dataKey # Null
        /\ Before(k - 1) = legendEvents[k].dataKey)
         => legendEvents[k].highlighted = Before(k - 1)

\* Spot Price, highlighted from the start, was clicked twice
C25_Witness ==
  /\ Len(legendEvents) = 2
  /\ legendEvents[1] = LegendEvent(sSpotPrice, Null)
  /\ legendEvents[2] = LegendEvent(sSpotPrice, sSpotPrice)
  /\ highlightedSeries = sSpotPrice

(***************************************************************************)
(* Part 5: the volatility fetch of the Index page (pages/Index.tsx).  A    *)
(* change of the date or of the region renders the page, and the effect of *)
(* lines 60-62 calls the new fetchData, which runs up to its await.        *)
(***************************************************************************)
\* the dates of the date picker and the codes of the region selector
\* (DashboardHeader.tsx lines 11-22, 84-92) the page is tried with
PageDates == {"2026-01-21", "2026-01-22"}
PageRegions == {"CH", "DE"}

\* lines 45-48: the body fetchData posts
Posted(area, day) == [area |-> area, date |-> day]

\* what the API answers to a body: a VolatilityResponse (lines 14-28) for
\* its area and date, with one of the volatility levels
VolatilityResponse(body, level) ==
  [t |-> "object", v |-> [area |-> body.area, date |-> body.date, level |-> level]]

Levels == {"low", "high"}

\* lines 39-49 and 60-62: the effect calls fetchData, whatever is in flight
StartFetch(fs, body) == Append(fs, body)

\* line 88 of DashboardHeader.tsx: setDate(d)
SetDate(d) ==
  /\ d # selectedDate
  /\ Len(fetches) < MaxRequests
  /\ selectedDate' = d
  /\ isLoadingIndex' = TRUE
  /\ fetches' = StartFetch(fetches, Posted(region, d))
  /\ UNCHANGED <<region, apiData>>
  /\ UNCHANGED <<chartVars, mapVars, colorVars, forecastVars, chatVars>>

\* line 61 of DashboardHeader.tsx: onValueChange={setRegion}
SetRegion(r) ==
  /\ r # region
  /\ Len(fetches) < MaxRequests
  /\ region' = r
  /\ isLoadingIndex' = TRUE
  /\ fetches' = StartFetch(fetches, Posted(r, selectedDate))
  /\ UNCHANGED <<selectedDate, apiData>>
  /\ UNCHANGED <<chartVars, mapVars, colorVars, forecastVars, chatVars>>

\* lines 50-52 and 56: fetch i is answered
FetchSucceeds(i, level) ==
  /\ apiData' = VolatilityResponse(fetches[i], level)
  /\ isLoadingIndex' = FALSE
  /\ fetches' = Without(fetches, i)
  /\ UNCHANGED <<selectedDate, region>>
  /\ UNCHANGED <<chartVars, mapVars, colorVars, forecastVars, chatVars>>

\* lines 50, 53-56: fetch i fails (network error, a status that is not ok,
\* a body that is not JSON)
FetchFails(i) ==
  /\ isLoadingIndex' = FALSE
  /\ fetches' = Without(fetches, i)
  /\ UNCHANGED <<selectedDate, region, apiData>>
  /\ UNCHANGED <<chartVars, mapVars, colorVars, forecastVars, chatVars>>

\* the page after its first render and its effect (lines 31-34, 60-62)
InitIndex ==
  /\ selectedDate = "2026-01-21"
  /\ region = "CH"
  /\ apiData = Null
  /\ isLoadingIndex = TRUE
  /\ fetches = <<Posted(region, selectedDate)>>
  /\ ChartUnused
  /\ MapUnused
  /\ ColorUnused
  /\ ForecastsUnused
  /\ ChatUnused

PicksDate == \E d \in PageDates : SetDate(d)
PicksRegion == \E r \in PageRegions : SetRegion(r)
Answered == \E i \in 1..Len(fetches) : \E level \in Levels : FetchSucceeds(i, level)
Unanswered == \E i \in 1..Len(fetches) : FetchFails(i)

NextIndex ==
  \/ PicksDate
  \/ PicksRegion
  \/ Answered
  \/ Unanswered

SpecIndex == InitIndex /\ [][NextIndex]_vars

(***************************************************************************)
(* Properties of the volatility fetch.                                     *)
(***************************************************************************)
\* C27 (as stated): only the response to the selected date and region is
\* stored: a response to an earlier selection that arrives after a later
\* selection does not overwrite apiData.
C27_StaleResponseNeverStored ==
  [][\A i \in 1..Len(fetches) : \A level \in Levels :
       FetchSucceeds(i, level) =>
         fetches[i] = Posted(region, selectedDate)]_vars

(***************************************************************************)
(* Part 6: the conversation of the ChatInterface component, handleSend     *)
(* (ChatInterface.tsx lines 81-139) and the input row (lines 442-460).  A  *)
(* message is kept by its role and content; its id is the clock's value.   *)
(***************************************************************************)
\* the characters String.prototype.trim removes that a text input can hold
IsWhiteSpace(c) == c \in {" ", "\t"}

\* String.prototype.trim
trim(s) ==
  LET kept == {i \in 1..Len(s) : ~IsWhiteSpace(s[i])}
  IN IF kept = {} THEN <<>>
     ELSE SubSeq(s, CHOOSE i \in kept : \A j \in kept : i <= j,
                    CHOOSE i \in kept : \A j \in kept : j <= i)

\* what the user types into the input
ChatTexts == {<<>>, <<" ">>, <<"h","i">>, <<" ","o","k"," ">>}

\* line 133
sConnectionError == 
  Str(<<"S","o","r","r","y",","," ","I"," ","e","n","c","o","u","n","t","e","r","e","d"," ","a","n"," ",
        "e","r","r","o","r"," ","c","o","n","n","e","c","t","i","n","g"," ",
        "t","o"," ","t","h","e"," ","e","n","e","r","g","y"," ","a","g","e","n","t",".">>)

\* lines 85-89, 118-123, 130-134: a Message
Message(role, content) == [role |-> role, content |-> content]

\* lines 100-103: the body of the POST request
Body(message, session) == [message |-> message, session_id |-> session]

\* line 110: the JSON bodies the agent answers with; session_id may be
\* missing or empty
sessionOne == Str(<<"s","1">>)
sessionTwo == Str(<<"s","2">>)
ChatResponses ==
  {[session_id |-> sid, text_content |-> Str(<<"o","k">>)] :
     sid \in {Undef, Str(<<>>), sessionOne, sessionTwo}}

Requested(session) == [kind |-> "request", session_id |-> session]
Responded(session) == [kind |-> "response", session_id |-> session]
Failed == [kind |-> "failure", session_id |-> Undef]

Requests(log) == SelectSeq(log, LAMBDA e : e.kind = "request")

\* lines 447 and 455 without the return of line 82: Enter sends a blank
\* input
CanSend_BlankToo(loading, text) == ~loading

\* line 82 (blank input returns), lines 447 and 455 (Enter is ignored and
\* the button is disabled while isLoading)
CanSend(loading, text) == ~loading /\ trim(text) # <<>>

\* lines 113-115 storing whatever the response has
NextSessionId_Always(current, data) == data.session_id

\* lines 113-115: if (data.session_id) setSessionId(data.session_id)
NextSessionId(current, data) ==
  IF Truthy(data.session_id) THEN data.session_id ELSE current

\* line 446: onChange={(e) => setInput(e.target.value)}; the input is
\* disabled while isLoading (line 449)
SetInput(text) ==
  /\ ~isLoadingChat
  /\ text # input
  /\ input' = text
  /\ UNCHANGED <<messages, isLoadingChat, sessionId, posted, exchanges>>
  /\ UNCHANGED <<chartVars, mapVars, colorVars, forecastVars, indexVars>>

\* lines 81-104: handleSend up to the await of fetch
handleSend ==
  /\ CanSend(isLoadingChat, input)
  /\ Len(Requests(exchanges)) < MaxSends
  /\ messages' = Append(messages, Message("user", Str(input)))
  /\ input' = <<>>
  /\ isLoadingChat' = TRUE
  /\ posted' = Append(posted, Body(input, sessionId))
  /\ exchanges' = Append(exchanges, Requested(sessionId))
  /\ UNCHANGED sessionId
  /\ UNCHANGED <<chartVars, mapVars, colorVars, forecastVars, indexVars>>

\* lines 106-126 and 137: request i is answered with data
ResponseArrives(i, data) ==
  /\ sessionId' = NextSessionId(sessionId, data)
  /\ messages' = Append(messages, Message("assistant", data.text_content))
  /\ isLoadingChat' = FALSE
  /\ posted' = Without(posted, i)
  /\ exchanges' = Append(exchanges, Responded(data.session_id))
  /\ UNCHANGED input
  /\ UNCHANGED <<chartVars, mapVars, colorVars, forecastVars, indexVars>>

\* lines 106-108, 128-137: request i fails (network error, a status that
\* is not ok, a body that is not JSON or is null)
RequestFails(i) ==
  /\ messages' = Append(messages, Message("assistant", sConnectionError))
  /\ isLoadingChat' = FALSE
  /\ posted' = Without(posted, i)
  /\ exchanges' = Append(exchanges, Failed)
  /\ UNCHANGED <<input, sessionId>>
  /\ UNCHANGED <<chartVars, mapVars, colorVars, forecastVars, indexVars>>

\* the component after its first render (lines 64-70)
InitChat ==
  /\ messages = <<>>
  /\ input = <<>>
  /\ isLoadingChat = FALSE
  /\ sessionId = Null
  /\ posted = <<>>
  /\ exchanges = <<>>
  /\ ChartUnused
  /\ MapUnused
  /\ ColorUnused
  /\ ForecastsUnused
  /\ IndexUnused

Types == \E text \in ChatTexts : SetInput(text)
Replies == \E i \in 1..Len(posted) : \E data \in ChatResponses : ResponseArrives(i, data)
Breaks == \E i \in 1..Len(posted) : RequestFails(i)

NextChat ==
  \/ Types
  \/ handleSend
  \/ Replies
  \/ Breaks

SpecChat == InitChat /\ [][NextChat]_vars

(***************************************************************************)
(* Properties of the conversation.                                         *)
(***************************************************************************)
\* the requests that have settled: the responses and failures of the log
Settled(log) == SelectSeq(log, LAMBDA e : e.kind # "request")

\* C29: the messages alternate user, assistant, user, ... from a user
\* message on.  Every send appends one user message with the non-blank
\* input before its request and its settlement appends one assistant
\* message, the connection-error text if it failed; at most one request is
\* in flight, and isLoading is true exactly while one is.
C29_MessagesAlternate ==
  /\ \A k \in 1..Len(messages) :
       messages[k].role = IF k % 2 = 1 THEN "user" ELSE "assistant"
  /\ \A k \in 1..Len(messages) :
       k % 2 = 1 => trim(messages[k].content.v) # <<>>
  /\ Len(posted) <= 1
  /\ isLoadingChat <=> posted # <<>>
  /\ Len(messages) = Len(Requests(exchanges)) + Len(Settled(exchanges))
  /\ Len(Requests(exchanges)) = Len(Settled(exchanges)) + Len(posted)
  /\ \A k \in 1..Len(Settled(exchanges)) :
       Settled(exchanges)[k].kind = "failure"
         <=> messages[2 * k].content = sConnectionError
  /\ \A k \in 1..Len(posted) :
       posted[k].message = messages[Len(messages)].content.v

\* two sends have settled, one answered and one failed
C29_Witness ==
  /\ Len(messages) = 4
  /\ messages[2].content # sConnectionError
  /\ messages[4].content = sConnectionError
  /\ ~isLoadingChat

RECURSIVE LastCarried(_, _)
\* the session_id of the last of the first k exchanges that is a response
\* with a session_id that is not empty; null when there is none
LastCarried(log, k) ==
  IF k = 0 THEN Null
  ELSE IF log[k].kind = "response" /\ log[k].session_id.t = "string"
          /\ log[k].session_id.v # <<>>
       THEN log[k].session_id
       ELSE LastCarried(log, k - 1)

\* C30: sessionId is null until a response carries a session_id and is
\* always the session_id of the last response that carried one: failed
\* requests and responses without one (or with an empty one) leave it as
\* it is.  Every request sends that value.
C30_SessionContinuity ==
  /\ sessionId = LastCarried(exchanges, Len(exchanges))
  /\ \A k \in 1..Len(exchanges) :
       exchanges[k].kind = "request"
         => exchanges[k].session_id = LastCarried(exchanges, k - 1)
  /\ \A k \in 1..Len(posted) :
       posted[k].session_id = sessionId

\* a session was opened, then a request failed and a response came without
\* a session_id: the third request still sent the session
C30_Witness ==
  /\ Len(exchanges) = 6
  /\ exchanges[2] = Responded(sessionOne)
  /\ exchanges[4] = Failed
  /\ exchanges[5] = Requested(sessionOne)
  /\ exchanges[6] = Responded(Undef)
  /\ sessionId = sessionOne

====
